---- MODULE Spec2Model ----
(***************************************************************************)
(* Resumable batch enrichment of the giallo screenshot pipeline.           *)
(*                                                                         *)
(* Four processors share one shape (load the ledger file, work out what is *)
(* left, call an external collaborator, write the ledger back):            *)
(*   content  scripts/check_cluster_screenshots_for_content.py             *)
(*   embed    scripts/add_embeddings.py                                    *)
(*   image    scripts/send_images_to_llm.py                                *)
(*   classify scripts/classify_clusters.py                                 *)
(* A behaviour follows one processor over one ledger file through at most  *)
(* MaxRuns consecutive runs; the item set does not change between runs.    *)
(* PartitionSpec exercises the two batch splitters alone on larger lists.  *)
(* The functions of the later stages are taken alone, each in its own      *)
(* specification: OrderSpec (order of the batches), NeighborSpec and       *)
(* FetchSpec (nearest neighbours), ClusterSpec (cluster membership and     *)
(* movie count), SequenceSpec and RoundSpec (timeline).                    *)
(***************************************************************************)
EXTENDS Integers, Sequences, FiniteSets, TLC

VARIABLES
    prog,         \* which processor this behaviour follows
    pc,           \* position of the main process
    run,          \* number of runs started so far
    prev,         \* how the previous run ended (pc when this run started)
    kind,         \* per item: what the input holds for it
    file,         \* ledger file: the mapping it holds when it parses
    file_state,   \* "absent", "valid", or "partial" (cut off in mid-write)
    loaded,       \* ledger as loaded at the start of the current run
    results,      \* in-memory ledger of the current run
    unprocessed,  \* to_process / unprocessed list of the current run
    batch_size,   \* batch size of the current run
    batches,      \* the batches of the current run
    wpos,         \* content check: items each pool worker has finished
    pending,      \* content check: results held by the pool, not yet merged
    idx,          \* loop counter (batch number, file number, cluster number)
    calls,        \* per item: external calls made for it in the current run
    outcome,      \* per item: what happened to it in the current run
    arg,          \* a function taken alone: the arguments it is called with
    ret           \* a function taken alone: what it has returned so far

\* The variables of the four processors.
procVars ==
    <<prog, pc, run, prev, kind, file, file_state, loaded, results, unprocessed,
      batch_size, batches, wpos, pending, idx, calls, outcome>>

vars ==
    <<prog, pc, run, prev, kind, file, file_state, loaded, results, unprocessed,
      batch_size, batches, wpos, pending, idx, calls, outcome, arg, ret>>

(***************************************************************************)
(* Bounds of the model and constants of the program.                       *)
(***************************************************************************)
MaxItems == 4

MaxRuns == 2

\* batch_size is 100 in add_embeddings.py; the model scales it down with the
\* item universe so that a run has more than one batch.
EmbedBatchSize == 2

MaxPartItems == 6

MaxPartBatch == 3

MAX_WORKERS == 3

Items == 1..MaxItems

NoEntry == "none"

Min(a, b) ==
    IF a <= b THEN a ELSE b

Empty ==
    [k \in Items |-> NoEntry]

Keys(m) ==
    {k \in Items : m[k] # NoEntry}

SeqSet(s) ==
    {s[i] : i \in 1..Len(s)}

\* sorted(S) for a set of item keys: ascending order.
RECURSIVE Sorted(_)
Sorted(S) ==
    IF S = {} THEN <<>>
    ELSE LET m == CHOOSE x \in S : \A y \in S : x <= y
         IN <<m>> \o Sorted(S \ {m})

\* [x for x in s if x in S]
RECURSIVE Filter(_, _)
Filter(s, S) ==
    IF s = <<>> THEN <<>>
    ELSE (IF Head(s) \in S THEN <<Head(s)>> ELSE <<>>) \o Filter(Tail(s), S)

\* Python's s[i:j] on a list, 0-based and half-open, j clamped to len(s).
Slice(s, i, j) ==
    SubSeq(s, i + 1, Min(j, Len(s)))

RECURSIVE Concat(_)
Concat(ss) ==
    IF ss = <<>> THEN <<>> ELSE Head(ss) \o Concat(Tail(ss))

(***************************************************************************)
(* Batch splitting.                                                        *)
(***************************************************************************)
\* mutant: each slice one item short
ContentBatches_Short(list, bs) ==
    [b \in 1..((Len(list) + bs - 1) \div bs) |->
        Slice(list, (b - 1) * bs, (b - 1) * bs + bs - 1)]

\* mutant: each slice runs one item into the next
ContentBatches_Overlap(list, bs) ==
    [b \in 1..((Len(list) + bs - 1) \div bs) |->
        Slice(list, (b - 1) * bs, (b - 1) * bs + bs + 1)]

\* [to_process[i:i + batch_size] for i in range(0, len(to_process), batch_size)]
ContentBatches(list, bs) ==
    [b \in 1..((Len(list) + bs - 1) \div bs) |->
        Slice(list, (b - 1) * bs, (b - 1) * bs + bs)]

\* mutant: the quotient alone, and 1 for a list shorter than the pool
ContentBatchSize_Quotient(n) ==
    IF n < MAX_WORKERS THEN 1 ELSE n \div MAX_WORKERS

\* batch_size = len(to_process) // MAX_WORKERS + 1
ContentBatchSize(n) ==
    (n \div MAX_WORKERS) + 1

\* total_batches = (len + batch_size - 1) // batch_size;
\* batch = unprocessed[batch_num * batch_size : min(start + batch_size, len)]
EmbedBatches(list, bs) ==
    [b \in 1..((Len(list) + bs - 1) \div bs) |->
        Slice(list, (b - 1) * bs, Min((b - 1) * bs + bs, Len(list)))]

(***************************************************************************)
(* The collaborator's raw text and its repair.  A text is a sequence of    *)
(* tokens: "F" three backticks, "J" the word json, "W" white space,        *)
(* "T" / "N" the text of a JSON object (for the content check              *)
(* {"nudity": true} / {"nudity": false}), "X" any other text.              *)
(***************************************************************************)
JSONDecodeError == "JSONDecodeError"

Raised == <<"raise">>

Responses ==
    { <<"T">>, <<"N">>, <<"W", "T", "W">>,
      <<"F", "J", "W", "T", "W", "F">>, <<"W", "F", "W", "N", "W", "F", "W">>,
      <<"X">>, <<"F", "J", "W", "X", "W", "F">>, <<"X", "W", "F", "J", "T", "F">>,
      <<"F">>, <<>> }

RECURSIVE LStrip(_)
LStrip(s) ==
    IF s # <<>> /\ Head(s) = "W" THEN LStrip(Tail(s)) ELSE s

RECURSIVE RStrip(_)
RStrip(s) ==
    IF s # <<>> /\ s[Len(s)] = "W" THEN RStrip(SubSeq(s, 1, Len(s) - 1)) ELSE s

\* str.strip()
Strip(s) ==
    RStrip(LStrip(s))

StartsWith(s, p) ==
    Len(s) >= Len(p) /\ SubSeq(s, 1, Len(p)) = p

EndsWith(s, p) ==
    Len(s) >= Len(p) /\ SubSeq(s, Len(s) - Len(p) + 1, Len(s)) = p

\* json.loads: white space around one JSON value is accepted, nothing else.
JsonLoads(s) ==
    LET t == Strip(s)
    IN IF t = <<"T">> THEN "true"
       ELSE IF t = <<"N">> THEN "false"
       ELSE JSONDecodeError

\* the fence stripping of check_image_content and process_image
CleanFences(content) ==
    LET c0 == Strip(content)
        c1 == IF StartsWith(c0, <<"F", "J">>) THEN SubSeq(c0, 3, Len(c0))
              ELSE IF StartsWith(c0, <<"F">>) THEN SubSeq(c0, 2, Len(c0))
              ELSE c0
        c2 == IF EndsWith(c1, <<"F">>) THEN SubSeq(c1, 1, Len(c1) - 1) ELSE c1
    IN Strip(c2)

\* Both parses of the raw text fail.
Unparseable(content) ==
    /\ JsonLoads(content) = JSONDecodeError
    /\ JsonLoads(CleanFences(content)) = JSONDecodeError

(***************************************************************************)
(* Items and ledger values.                                                *)
(***************************************************************************)
Progs == {"content", "embed", "image", "classify"}

\* What the input can hold for an item, per processor.
KindsOf(p) ==
    CASE p = "content" -> {"no_delimiter", "missing_file", "present"}
      [] p = "embed" -> {"empty", "text"}
      [] p = "image" -> {"present"}
      [] p = "classify" -> {"no_descriptions", "descriptions"}
      [] OTHER -> {"present"}

None == "None"

\* Ledger values that carry an error marker (an "error" key).
ErrorMarked(v) ==
    v \in {"error_file_not_found", "error_exception"}

Stopped == {"idle", "done", "failed", "killed", "crashed"}

Running == {"pool", "loop"}

NoCalls ==
    [k \in Items |-> 0]

NoOutcome ==
    [k \in Items |-> "none"]

\* What the collaborator's answer amounted to.
OutcomeOf(r) ==
    IF r = Raised THEN "raised"
    ELSE IF Unparseable(r) THEN "unparseable"
    ELSE "evaluated"

\* mutant: the batch's entries replace the ledger instead of joining it
dict_update_Replace(res, upd, keys) ==
    [k \in Items |-> IF k \in keys THEN upd[k] ELSE NoEntry]

\* results.update(batch_result), keys the keys of batch_result
dict_update(res, upd, keys) ==
    [k \in Items |-> IF k \in keys THEN upd[k] ELSE res[k]]

(***************************************************************************)
(* Content check: check_cluster_screenshots_for_content.py                 *)
(***************************************************************************)
\* clusters.json, every cluster but "-1"
all_screenshots == Items

\* mutant: the path is returned without looking at the key or the disk
get_screenshot_path_Unchecked(k) ==
    "path"

get_screenshot_path(k) ==
    IF kind[k] = "no_delimiter" THEN None
    ELSE IF kind[k] = "present" THEN "path"
    ELSE None

\* The parsed object as the ledger value it becomes.
NudityValue(parsed) ==
    IF parsed = "true" THEN "nudity_true" ELSE "nudity_false"

\* check_image_content from the raw text on (lines 84-105)
check_image_content(content) ==
    LET first == JsonLoads(content)
        second == JsonLoads(CleanFences(content))
    IN IF first # JSONDecodeError THEN NudityValue(first)
       ELSE IF second # JSONDecodeError THEN NudityValue(second)
       ELSE "nudity_false"

\* One iteration of process_batch's loop for a key whose path resolved,
\* r the collaborator's answer.
content_item_result(r) ==
    IF r = Raised THEN "error_exception" ELSE check_image_content(r)

ContentStart ==
    /\ prog = "content"
    /\ pc \in Stopped
    /\ run < MaxRuns
    /\ run' = run + 1
    /\ prev' = pc
    /\ calls' = NoCalls
    /\ outcome' = NoOutcome
    /\ pending' = Empty
    /\ IF file_state = "partial"
       THEN /\ pc' = "crashed"
            /\ loaded' = Empty
            /\ results' = Empty
            /\ unprocessed' = <<>>
            /\ batch_size' = 0
            /\ batches' = <<>>
            /\ wpos' = <<>>
            /\ idx' = 0
       ELSE LET to_process == Filter(Sorted(all_screenshots), Items \ Keys(file))
                bs == ContentBatchSize(Len(to_process))
                bb == ContentBatches(to_process, bs)
            IN /\ loaded' = file
               /\ results' = file
               /\ unprocessed' = to_process
               /\ IF to_process = <<>>
                  THEN /\ pc' = "done"
                       /\ batch_size' = 0
                       /\ batches' = <<>>
                       /\ wpos' = <<>>
                       /\ idx' = 0
                  ELSE /\ pc' = "pool"
                       /\ batch_size' = bs
                       /\ batches' = bb
                       /\ wpos' = [b \in 1..Len(bb) |-> 0]
                       /\ idx' = 1
    /\ UNCHANGED <<arg, ret, prog, kind, file, file_state>>

\* A pool worker handles the next key of its batch.
ContentWorkerItem(b) ==
    /\ prog = "content"
    /\ pc = "pool"
    /\ wpos[b] < Len(batches[b])
    /\ LET k == batches[b][wpos[b] + 1]
       IN IF get_screenshot_path(k) = None
          THEN /\ pending' = [pending EXCEPT ![k] = "error_file_not_found"]
               /\ outcome' = [outcome EXCEPT ![k] = "not_found"]
               /\ UNCHANGED calls
          ELSE \E r \in Responses \cup {Raised} :
                  /\ calls' = [calls EXCEPT ![k] = @ + 1]
                  /\ pending' = [pending EXCEPT ![k] = content_item_result(r)]
                  /\ outcome' = [outcome EXCEPT ![k] = OutcomeOf(r)]
    /\ wpos' = [wpos EXCEPT ![b] = @ + 1]
    /\ UNCHANGED <<arg, ret, prog, pc, run, prev, kind, file, file_state, loaded, results,
                   unprocessed, batch_size, batches, idx>>

\* pool.map has returned
PoolReturned ==
    \A b \in DOMAIN batches : wpos[b] = Len(batches[b])

\* One iteration of main's merge loop: results.update(batch_result) and
\* save_progress(results); cut: the process is interrupted inside the write,
\* after open(OUTPUT_FILE, 'w') has emptied the file.
ContentMerge ==
    /\ prog = "content"
    /\ pc = "pool"
    /\ PoolReturned
    /\ idx <= Len(batches)
    /\ LET merged == dict_update(results, pending, SeqSet(batches[idx]))
       IN /\ results' = merged
          /\ \E cut \in BOOLEAN :
                IF cut
                THEN /\ file' = Empty
                     /\ file_state' = "partial"
                     /\ pc' = "killed"
                     /\ idx' = idx
                ELSE /\ file' = merged
                     /\ file_state' = "valid"
                     /\ idx' = idx + 1
                     /\ pc' = IF idx = Len(batches) THEN "done" ELSE "pool"
    /\ UNCHANGED <<arg, ret, prog, run, prev, kind, loaded, unprocessed, batch_size, batches,
                   wpos, pending, calls, outcome>>

\* The user interrupts the run, or the process is killed, between two writes.
Interrupt ==
    /\ pc \in Running
    /\ pc' = "killed"
    /\ UNCHANGED <<arg, ret, prog, run, prev, kind, file, file_state, loaded, results,
                   unprocessed, batch_size, batches, wpos, pending, idx, calls,
                   outcome>>

(***************************************************************************)
(* Embeddings: add_embeddings.py, one data file                            *)
(***************************************************************************)
\* ', '.join(tags) and the description of an item, as texts
TagsText(k) ==
    IF kind[k] = "text" THEN <<"X">> ELSE <<>>

Description(k) ==
    IF kind[k] = "text" THEN <<"X">> ELSE <<>>

\* f"{tags_text}. {description}".strip(), None when that is empty
create_text_for_embedding(k) ==
    LET text == Strip(TagsText(k) \o <<".", "W">> \o Description(k))
    IN IF text # <<>> THEN text ELSE None

\* mutant: the ledger is not consulted
get_unprocessed_screenshots_All(data, existing) ==
    Filter(data, {k \in Items : create_text_for_embedding(k) # None})

\* data: the keys of the data file in file order; those not in the ledger
\* that have a text, in that order
get_unprocessed_screenshots(data, existing) ==
    Filter(data,
           {k \in Items : existing[k] = NoEntry /\ create_text_for_embedding(k) # None})

EmbedStart ==
    /\ prog = "embed"
    /\ pc \in Stopped
    /\ run < MaxRuns
    /\ run' = run + 1
    /\ prev' = pc
    /\ calls' = NoCalls
    /\ outcome' = NoOutcome
    /\ IF file_state = "partial"
       THEN /\ pc' = "crashed"
            /\ loaded' = Empty
            /\ results' = Empty
            /\ unprocessed' = <<>>
            /\ batch_size' = 0
            /\ batches' = <<>>
            /\ idx' = 0
       ELSE LET todo == get_unprocessed_screenshots(Sorted(Items), file)
            IN /\ loaded' = file
               /\ results' = file
               /\ unprocessed' = todo
               /\ IF todo = <<>>
                  THEN /\ pc' = "done"
                       /\ batch_size' = 0
                       /\ batches' = <<>>
                       /\ idx' = 0
                  ELSE /\ pc' = "loop"
                       /\ batch_size' = EmbedBatchSize
                       /\ batches' = EmbedBatches(todo, EmbedBatchSize)
                       /\ idx' = 1
    /\ UNCHANGED <<arg, ret, prog, kind, file, file_state, wpos, pending>>

\* mutant: a failed batch is skipped and the loop goes on
EmbedBatchFailed_Continue ==
    /\ idx' = idx + 1
    /\ pc' = IF idx = Len(batches) THEN "done" ELSE "loop"
    /\ outcome' = [k \in Items |->
                     IF k \in SeqSet(batches[idx]) THEN "raised" ELSE outcome[k]]
    /\ UNCHANGED <<results, file, file_state>>

\* process_batch returned None: process_file returns False
EmbedBatchFailed ==
    /\ pc' = "failed"
    /\ outcome' = [k \in Items |->
                     IF k \in SeqSet(batches[idx]) THEN "raised" ELSE outcome[k]]
    /\ UNCHANGED <<results, file, file_state, idx>>

\* One iteration of process_file's loop: process_batch (one call for the
\* whole batch), then update and save_embeddings, or return False.
EmbedBatch ==
    /\ prog = "embed"
    /\ pc = "loop"
    /\ LET batch == SeqSet(batches[idx])
           batch_embeddings == [k \in Items |-> "embedding"]
           merged == dict_update(results, batch_embeddings, batch)
       IN /\ calls' = [k \in Items |-> IF k \in batch THEN calls[k] + 1 ELSE calls[k]]
          /\ \/ /\ results' = merged
                /\ outcome' = [k \in Items |->
                                 IF k \in batch THEN "evaluated" ELSE outcome[k]]
                /\ \E cut \in BOOLEAN :
                      IF cut
                      THEN /\ file' = Empty
                           /\ file_state' = "partial"
                           /\ pc' = "killed"
                           /\ idx' = idx
                      ELSE /\ file' = merged
                           /\ file_state' = "valid"
                           /\ idx' = idx + 1
                           /\ pc' = IF idx = Len(batches) THEN "done" ELSE "loop"
             \/ EmbedBatchFailed
    /\ UNCHANGED <<arg, ret, prog, run, prev, kind, loaded, unprocessed, batch_size, batches,
                   wpos, pending>>

(***************************************************************************)
(* Image enrichment: send_images_to_llm.py, one directory                  *)
(***************************************************************************)
\* process_image from the raw text on (lines 66-80): the parsed object, or
\* JSONDecodeError raised by the second json.loads
process_image(content) ==
    LET first == JsonLoads(content)
        second == JsonLoads(CleanFences(content))
    IN IF first # JSONDecodeError THEN "record"
       ELSE IF second # JSONDecodeError THEN "record"
       ELSE JSONDecodeError

ImageStart ==
    /\ prog = "image"
    /\ pc \in Stopped
    /\ run < MaxRuns
    /\ run' = run + 1
    /\ prev' = pc
    /\ calls' = NoCalls
    /\ outcome' = NoOutcome
    /\ IF file_state = "partial"
       THEN /\ pc' = "crashed"
            /\ loaded' = Empty
            /\ results' = Empty
            /\ unprocessed' = <<>>
            /\ idx' = 0
       ELSE /\ loaded' = file
            /\ results' = file
            /\ unprocessed' = Sorted(Items)
            /\ pc' = "loop"
            /\ idx' = 1
    /\ UNCHANGED <<arg, ret, prog, kind, file, file_state, batch_size, batches, wpos, pending>>

\* One iteration of process_directory's loop over jpg_files (held in
\* unprocessed): skip a key already in results, else call, record and save,
\* or count an error.
ImageItem ==
    /\ prog = "image"
    /\ pc = "loop"
    /\ LET k == unprocessed[idx]
           after == IF idx = Len(unprocessed) THEN "done" ELSE "loop"
       IN IF results[k] # NoEntry
          THEN /\ idx' = idx + 1
               /\ pc' = after
               /\ UNCHANGED <<results, file, file_state, calls, outcome>>
          ELSE \E r \in Responses \cup {Raised} :
                  /\ calls' = [calls EXCEPT ![k] = @ + 1]
                  /\ outcome' = [outcome EXCEPT ![k] = OutcomeOf(r)]
                  /\ IF r = Raised \/ process_image(r) = JSONDecodeError
                     THEN /\ idx' = idx + 1
                          /\ pc' = after
                          /\ UNCHANGED <<results, file, file_state>>
                     ELSE LET merged == [results EXCEPT ![k] = process_image(r)]
                          IN /\ results' = merged
                             /\ \E cut \in BOOLEAN :
                                   IF cut
                                   THEN /\ file' = Empty
                                        /\ file_state' = "partial"
                                        /\ pc' = "killed"
                                        /\ idx' = idx
                                   ELSE /\ file' = merged
                                        /\ file_state' = "valid"
                                        /\ idx' = idx + 1
                                        /\ pc' = after
    /\ UNCHANGED <<arg, ret, prog, run, prev, kind, loaded, unprocessed, batch_size, batches,
                   wpos, pending>>

(***************************************************************************)
(* Cluster classification: classify_clusters.py                            *)
(***************************************************************************)
\* mutant: every entry counts as classified, an empty classification too
Classified_AnyEntry(v) ==
    v \in {"classified", "no_descriptions_available", "empty_classification"}

\* An entry whose classification is a non-empty string.
Classified(v) ==
    v \in {"classified", "no_descriptions_available"}

\* results after load_existing_results and the resume prompt (lines 129-157):
\* the file's classifications, or a fresh empty map when there is no readable
\* file or the user declines to resume.
classify_initial_results(resume) ==
    IF file_state = "valid" /\ (Keys(file) = {} \/ resume) THEN file ELSE Empty

ClassifyStart ==
    /\ prog = "classify"
    /\ pc \in Stopped
    /\ run < MaxRuns
    /\ run' = run + 1
    /\ prev' = pc
    /\ calls' = NoCalls
    /\ outcome' = NoOutcome
    /\ loaded' = IF file_state = "valid" THEN file ELSE Empty
    /\ \E resume \in BOOLEAN : results' = classify_initial_results(resume)
    /\ unprocessed' = Sorted(Items)
    /\ pc' = "loop"
    /\ idx' = 1
    /\ UNCHANGED <<arg, ret, prog, kind, file, file_state, batch_size, batches, wpos, pending>>

\* One iteration of classify_all_clusters' loop over cluster_ids (held in
\* unprocessed).  save_results runs after a classification and in the
\* except branch alike.
ClassifyItem ==
    /\ prog = "classify"
    /\ pc = "loop"
    /\ LET k == unprocessed[idx]
           after == IF idx = Len(unprocessed) THEN "done" ELSE "loop"
       IN IF Classified(results[k])
          THEN /\ idx' = idx + 1
               /\ pc' = after
               /\ UNCHANGED <<results, file, file_state, calls, outcome>>
          ELSE \E o \in {"no_call", "text", "empty", "raise"} :
                  /\ (o = "no_call") <=> (kind[k] = "no_descriptions")
                  /\ calls' = IF o = "no_call" THEN calls
                              ELSE [calls EXCEPT ![k] = @ + 1]
                  /\ outcome' = [outcome EXCEPT ![k] =
                                    IF o = "raise" THEN "raised" ELSE "evaluated"]
                  /\ results' =
                        CASE o = "no_call" ->
                               [results EXCEPT ![k] = "no_descriptions_available"]
                          [] o = "text" -> [results EXCEPT ![k] = "classified"]
                          [] o = "empty" -> [results EXCEPT ![k] = "empty_classification"]
                          [] OTHER -> results
                  /\ \E cut \in BOOLEAN :
                        IF cut
                        THEN /\ file' = Empty
                             /\ file_state' = "partial"
                             /\ pc' = "killed"
                             /\ idx' = idx
                        ELSE /\ file' = results'
                             /\ file_state' = "valid"
                             /\ idx' = idx + 1
                             /\ pc' = after
    /\ UNCHANGED <<arg, ret, prog, run, prev, kind, loaded, unprocessed, batch_size, batches,
                   wpos, pending>>

Init ==
    /\ prog \in Progs
    /\ kind \in [Items -> KindsOf(prog)]
    /\ pc = "idle"
    /\ run = 0
    /\ prev = "idle"
    /\ file = Empty
    /\ file_state = "absent"
    /\ loaded = Empty
    /\ results = Empty
    /\ unprocessed = <<>>
    /\ batch_size = 0
    /\ batches = <<>>
    /\ wpos = <<>>
    /\ pending = Empty
    /\ idx = 0
    /\ calls = NoCalls
    /\ outcome = NoOutcome
    /\ arg = <<>>
    /\ ret = <<>>

Next ==
    \/ ContentStart
    \/ \E b \in DOMAIN batches : ContentWorkerItem(b)
    \/ ContentMerge
    \/ EmbedStart
    \/ EmbedBatch
    \/ ImageStart
    \/ ImageItem
    \/ ClassifyStart
    \/ ClassifyItem
    \/ Interrupt

Spec == Init /\ [][Next]_vars

(***************************************************************************)
(* The batch splitters alone, on any list of distinct keys and any batch   *)
(* size.                                                                   *)
(***************************************************************************)
PartInit ==
    /\ prog = "partition"
    /\ kind = [k \in Items |-> "present"]
    /\ pc = "idle"
    /\ run = 0
    /\ prev = "idle"
    /\ file = Empty
    /\ file_state = "absent"
    /\ loaded = Empty
    /\ results = Empty
    /\ unprocessed \in {Sorted(S) : S \in SUBSET (1..MaxPartItems)}
    /\ batch_size \in 1..MaxPartBatch
    /\ batches = <<>>
    /\ wpos = <<>>
    /\ pending = Empty
    /\ idx = 0
    /\ calls = NoCalls
    /\ outcome = NoOutcome
    /\ arg = <<>>
    /\ ret = <<>>

PartSplitContent ==
    /\ prog = "partition"
    /\ pc = "idle"
    /\ batches' = ContentBatches(unprocessed, batch_size)
    /\ pc' = "content_split"
    /\ UNCHANGED <<arg, ret, prog, run, prev, kind, file, file_state, loaded, results,
                   unprocessed, batch_size, wpos, pending, idx, calls, outcome>>

PartSplitEmbed ==
    /\ prog = "partition"
    /\ pc = "idle"
    /\ batches' = EmbedBatches(unprocessed, batch_size)
    /\ pc' = "embed_split"
    /\ UNCHANGED <<arg, ret, prog, run, prev, kind, file, file_state, loaded, results,
                   unprocessed, batch_size, wpos, pending, idx, calls, outcome>>

\* The content check's split for its pool (lines 197-198): the batch size
\* comes from the length of the list, which is not empty here (line 191).
PartSplitWorkers ==
    /\ prog = "partition"
    /\ pc = "idle"
    /\ unprocessed # <<>>
    /\ batch_size' = ContentBatchSize(Len(unprocessed))
    /\ batches' = ContentBatches(unprocessed, batch_size')
    /\ pc' = "workers_split"
    /\ UNCHANGED <<arg, ret, prog, run, prev, kind, file, file_state, loaded, results,
                   unprocessed, wpos, pending, idx, calls, outcome>>

PartNext ==
    \/ PartSplitContent
    \/ PartSplitEmbed
    \/ PartSplitWorkers

PartitionSpec == PartInit /\ [][PartNext]_vars

(***************************************************************************)
(* Functions taken alone.  The processors stand still (ProcIdle); arg      *)
(* holds the arguments and ret what has been returned.                     *)
(***************************************************************************)
ProcIdle(p) ==
    /\ prog = p
    /\ kind = [k \in Items |-> "text"]
    /\ pc = "idle"
    /\ run = 0
    /\ prev = "idle"
    /\ file = Empty
    /\ file_state = "absent"
    /\ loaded = Empty
    /\ results = Empty
    /\ unprocessed = <<>>
    /\ batch_size = 0
    /\ batches = <<>>
    /\ wpos = <<>>
    /\ pending = Empty
    /\ idx = 0
    /\ calls = NoCalls
    /\ outcome = NoOutcome

\* The lists that hold every element of S once.
Orders(S) ==
    {s \in [1..Cardinality(S) -> S] : \A i, j \in DOMAIN s : s[i] = s[j] => i = j}

\* list.insert of x before the first element greater than x
RECURSIVE Insert(_, _)
Insert(x, s) ==
    IF s = <<>> THEN <<x>>
    ELSE IF x < Head(s) THEN <<x>> \o s
    ELSE <<Head(s)>> \o Insert(x, Tail(s))

\* mutant: the list is left in the order it came in
sorted_AsGiven(s) ==
    s

\* sorted(s) for any iterable handed over as the list s of its elements in
\* iteration order
RECURSIVE sorted(_)
sorted(s) ==
    IF s = <<>> THEN <<>> ELSE Insert(Head(s), sorted(Tail(s)))

(***************************************************************************)
(* The order of the batches: the start of a content-check run and of an    *)
(* embedding run, twice over the same input and ledger.  The content check *)
(* collects all_screenshots in a set, whose iteration order is any; the    *)
(* embedding run walks the data file, whose keys are in the order the      *)
(* image enrichment added them (a key added by a later run comes last).    *)
(***************************************************************************)
OrderRuns == 2

OrderInit ==
    /\ ProcIdle("order")
    /\ arg \in [proc : {"content", "embed"},
                data : Orders(Items),
                existing : [Items -> {NoEntry, "entry"}]]
    /\ ret = <<>>

\* main up to the batches (lines 172-199); it: the iteration order of the set
OrderContentRun ==
    /\ arg.proc = "content"
    /\ Len(ret) < OrderRuns
    /\ \E it \in Orders(all_screenshots) :
          LET to_process == Filter(sorted(it), Items \ Keys(arg.existing))
              bs == ContentBatchSize(Len(to_process))
          IN ret' = Append(ret, [batch_size |-> bs,
                                 batches |-> ContentBatches(to_process, bs)])
    /\ UNCHANGED <<arg, procVars>>

\* process_file up to the batches (lines 88-111)
OrderEmbedRun ==
    /\ arg.proc = "embed"
    /\ Len(ret) < OrderRuns
    /\ LET todo == get_unprocessed_screenshots(arg.data, arg.existing)
       IN ret' = Append(ret, [batch_size |-> EmbedBatchSize,
                              batches |-> EmbedBatches(todo, EmbedBatchSize)])
    /\ UNCHANGED <<arg, procVars>>

OrderNext ==
    \/ OrderContentRun
    \/ OrderEmbedRun

OrderSpec == OrderInit /\ [][OrderNext]_vars

(***************************************************************************)
(* Screenshot keys.  A key is a text, a sequence of tokens: "A" and "B"    *)
(* are pieces of a video file name, "__" the delimiter, "0".."9" digits,   *)
(* ".jpg" the extension.  prepare_dir.py names frame n of a video          *)
(* <video_file>__<n, four digits at least>.jpg.                            *)
(***************************************************************************)
Digits ==
    <<"0", "1", "2", "3", "4", "5", "6", "7", "8", "9">>

IsDigit(t) ==
    \E i \in DOMAIN Digits : Digits[i] = t

DigitValue(t) ==
    (CHOOSE i \in DOMAIN Digits : Digits[i] = t) - 1

\* str(n) for n >= 0
RECURSIVE str(_)
str(n) ==
    IF n < 10 THEN <<Digits[n + 1]>> ELSE str(n \div 10) \o <<Digits[(n % 10) + 1]>>

\* "%0<w>d": zeros in front up to the width w
RECURSIVE ZeroPad(_, _)
ZeroPad(t, w) ==
    IF Len(t) >= w THEN t ELSE ZeroPad(<<"0">> \o t, w)

\* int(t) for a text of digits
RECURSIVE int(_)
int(t) ==
    IF t = <<>> THEN 0
    ELSE int(SubSeq(t, 1, Len(t) - 1)) * 10 + DigitValue(t[Len(t)])

\* f"{video_file}__%04d.jpg" as ffmpeg fills it in for frame n
screenshot_name(video_file, n) ==
    video_file \o <<"__">> \o ZeroPad(str(n), 4) \o <<".jpg">>

\* Video file names; the second one holds the delimiter itself.
Videos ==
    {<<"A">>, <<"A", "__", "B">>}

\* Jpgs in a screenshot directory that prepare_dir.py did not write (it
\* leaves a directory alone that holds jpg files already).
ForeignNames ==
    {<<"A", ".jpg">>, <<"B", ".jpg">>}

(***************************************************************************)
(* Nearest neighbours: build_nearest_neighbors.py                          *)
(***************************************************************************)
window == 10

FETCH_LIMIT == 100

MaxCorpus == 4

MaxTarget == 3

\* Frame numbers at distances 1, window and window + 1 from each other.
FrameChoices ==
    {1, 1 + window, 2 + window}

\* What a key of the corpus comes from: frame `frame` of the video `movie`,
\* or (made = FALSE) a file that is no frame of any video.
Origins ==
    [key : ForeignNames, made : {FALSE}, movie : {<<>>}, frame : {0}]
    \cup {[key |-> screenshot_name(v, n), made |-> TRUE, movie |-> v, frame |-> n] :
             v \in Videos, n \in FrameChoices}

RECURSIVE ListOf(_)
ListOf(S) ==
    IF S = {} THEN <<>>
    ELSE LET x == CHOOSE y \in S : TRUE IN <<x>> \o ListOf(S \ {x})

\* re.match(r'^(.+)__(\d+)\.jpg$', filename): the places where the "__" of
\* the pattern can stand; (.+) is greedy, so the match takes the last one.
DelimiterPlaces(filename) ==
    {p \in DOMAIN filename :
        /\ filename[p] = "__"
        /\ p > 1
        /\ p + 1 <= Len(filename) - 1
        /\ \A i \in (p + 1)..(Len(filename) - 1) : IsDigit(filename[i])
        /\ filename[Len(filename)] = ".jpg"}

\* (movie, frame) of a key; matched = FALSE stands for (None, None)
extract_movie_and_frame(filename) ==
    IF DelimiterPlaces(filename) = {}
    THEN [matched |-> FALSE, movie |-> <<>>, frame |-> 0]
    ELSE LET p == CHOOSE q \in DelimiterPlaces(filename) :
                     \A r \in DelimiterPlaces(filename) : r <= q
         IN [matched |-> TRUE,
             movie |-> SubSeq(filename, 1, p - 1),
             frame |-> int(SubSeq(filename, p + 1, Len(filename) - 1))]

abs(x) ==
    IF x < 0 THEN -x ELSE x

\* mutant: a candidate exactly window frames away is let through
should_exclude_Inside(query_file, candidate_file) ==
    LET q == extract_movie_and_frame(query_file)
        c == extract_movie_and_frame(candidate_file)
    IN q.matched /\ c.matched /\ q.movie = c.movie /\ abs(q.frame - c.frame) < window

should_exclude(query_file, candidate_file) ==
    LET q == extract_movie_and_frame(query_file)
        c == extract_movie_and_frame(candidate_file)
    IN IF ~q.matched \/ ~c.matched THEN FALSE
       ELSE IF q.movie # c.movie THEN FALSE
       ELSE abs(q.frame - c.frame) <= window

\* k = min(100, len(keys))
k_fetch(n) ==
    Min(FETCH_LIMIT, n)

\* nn.kneighbors(..., n_neighbors=k) over n points: k indices, nearest
\* first; any order of any k points can be the order of their distances.
kneighbors(n, k) ==
    {raw \in [1..k -> 1..n] : \A i, j \in 1..k : raw[i] = raw[j] => i = j}

\* mutant: the loop does not stop at target_count
neighbors_loop_NoBreak(keys, query_idx, raw, target_count, i, neighbors) ==
    LET passing == {j \in DOMAIN raw :
                       /\ raw[j] # query_idx
                       /\ ~should_exclude(keys[query_idx], keys[raw[j]])}
    IN [j \in 1..Cardinality(passing) |->
           LET r == CHOOSE r \in passing : Cardinality({q \in passing : q < r}) = j - 1
           IN [screenshot |-> keys[raw[r]], distance |-> r]]

\* The loop of find_filtered_neighbors from position i of the raw result on
\* (lines 88-105); the distance of a neighbour is given as its rank.
RECURSIVE neighbors_loop(_, _, _, _, _, _)
neighbors_loop(keys, query_idx, raw, target_count, i, neighbors) ==
    IF i > Len(raw) THEN neighbors
    ELSE IF raw[i] = query_idx
         THEN neighbors_loop(keys, query_idx, raw, target_count, i + 1, neighbors)
    ELSE IF should_exclude(keys[query_idx], keys[raw[i]])
         THEN neighbors_loop(keys, query_idx, raw, target_count, i + 1, neighbors)
    ELSE LET found == Append(neighbors, [screenshot |-> keys[raw[i]], distance |-> i])
         IN IF Len(found) >= target_count THEN found
            ELSE neighbors_loop(keys, query_idx, raw, target_count, i + 1, found)

find_filtered_neighbors(keys, query_idx, raw, target_count) ==
    neighbors_loop(keys, query_idx, raw, target_count, 1, <<>>)

NeighborInit ==
    /\ ProcIdle("neighbors")
    /\ \E S \in SUBSET Origins :
          /\ Cardinality(S) \in 1..MaxCorpus
          /\ arg \in [corpus : {ListOf(S)},
                      query_idx : 1..Cardinality(S),
                      target_count : 1..MaxTarget]
    /\ ret = <<>>

\* One call of find_filtered_neighbors; keys are the keys of the corpus.
FindNeighbors ==
    /\ ret = <<>>
    /\ LET keys == [i \in DOMAIN arg.corpus |-> arg.corpus[i].key]
           k == k_fetch(Len(keys))
       IN \E raw \in kneighbors(Len(keys), k) :
             ret' = [k |-> k,
                     raw |-> raw,
                     kneighbors_calls |-> 1,
                     neighbors |-> find_filtered_neighbors(keys, arg.query_idx, raw,
                                                           arg.target_count)]
    /\ UNCHANGED <<arg, procVars>>

NeighborNext ==
    FindNeighbors

NeighborSpec == NeighborInit /\ [][NeighborNext]_vars

\* The number of raw candidates asked for, for any corpus size and any
\* target_count.
MaxCorpusSize == 120

MaxTargetCount == 25

FetchInit ==
    /\ ProcIdle("fetch")
    /\ arg \in [n : 0..MaxCorpusSize, target_count : 1..MaxTargetCount]
    /\ ret = <<>>

\* build_nn_index(embeddings_matrix, n_neighbors=100), line 70
FetchIndex ==
    /\ ret = <<>>
    /\ ret' = [at |-> "build_nn_index", k |-> Min(FETCH_LIMIT, arg.n)]
    /\ UNCHANGED <<arg, procVars>>

\* find_filtered_neighbors(..., target_count), line 85
FetchQuery ==
    /\ ret # <<>>
    /\ ret.at = "build_nn_index"
    /\ ret' = [at |-> "find_filtered_neighbors", k |-> k_fetch(arg.n)]
    /\ UNCHANGED <<arg, procVars>>

FetchNext ==
    \/ FetchIndex
    \/ FetchQuery

FetchSpec == FetchInit /\ [][FetchNext]_vars

(***************************************************************************)
(* Cluster membership: cluster_hdbscan.py, and the movie count of          *)
(* check_for_cluster_movie_count.py over the clusters it wrote.            *)
(***************************************************************************)
MaxLabel == 1

\* min_cluster_size is 5 in cluster_hdbscan.py; the model scales it down
\* with the corpus.
MinClusterSize == 2

PRINT_LIMIT == 20

Labels ==
    (-1)..MaxLabel

\* clusters[int(label)].append(key) for the pairs of zip(keys,
\* cluster_labels) from the i-th on; clusters: the lists of the labels met
RECURSIVE analyze_loop(_, _, _, _)
analyze_loop(keys, cluster_labels, i, clusters) ==
    IF i > Min(Len(keys), Len(cluster_labels)) THEN clusters
    ELSE LET label == cluster_labels[i]
             members == IF label \in DOMAIN clusters THEN clusters[label] ELSE <<>>
         IN analyze_loop(keys, cluster_labels, i + 1,
                         [l \in DOMAIN clusters \cup {label} |->
                             IF l = label THEN Append(members, keys[i])
                             ELSE clusters[l]])

\* mutant: the noise points are left out of the membership
analyze_clusters_NoNoise(keys, cluster_labels) ==
    LET all == analyze_loop(keys, cluster_labels, 1, <<>>)
    IN [l \in DOMAIN all \ {-1} |-> all[l]]

\* mutant: every member list comes out last key first
analyze_clusters_Reversed(keys, cluster_labels) ==
    LET all == analyze_loop(keys, cluster_labels, 1, <<>>)
    IN [l \in DOMAIN all |->
           [i \in 1..Len(all[l]) |-> all[l][Len(all[l]) + 1 - i]]]

analyze_clusters(keys, cluster_labels) ==
    analyze_loop(keys, cluster_labels, 1, <<>>)

\* reverse_index[key] = int(label) over zip(keys, cluster_labels): the
\* label of the last pair that holds the key
save_reverse_index(keys, cluster_labels) ==
    LET n == Min(Len(keys), Len(cluster_labels))
    IN [k \in {keys[i] : i \in 1..n} |->
           cluster_labels[CHOOSE i \in 1..n :
                             keys[i] = k /\ \A j \in 1..n : keys[j] = k => j <= i]]

\* parse_filename of check_for_cluster_movie_count.py: the text before the
\* last "__"; <<>> stands for None as well as for '', `if movie:` takes
\* neither.
parse_filename(filename) ==
    LET places == {p \in DOMAIN filename : filename[p] = "__"}
    IN IF places = {} THEN <<>>
       ELSE SubSeq(filename, 1, (CHOOSE p \in places : \A q \in places : q <= p) - 1)

\* The distinct movies of a member list (lines 38-43).
movies_of(screenshots) ==
    {parse_filename(screenshots[i]) : i \in DOMAIN screenshots} \ {<<>>}

\* The entries of single_movie_clusters that the report prints: the first
\* PRINT_LIMIT by screenshot_count, largest first (sorted is stable).
Printed(single) ==
    {i \in DOMAIN single :
        Cardinality({j \in DOMAIN single :
                        \/ single[j].screenshot_count > single[i].screenshot_count
                        \/ /\ single[j].screenshot_count = single[i].screenshot_count
                           /\ j < i}) < PRINT_LIMIT}

\* check_cluster_movies over clusters (label |-> member list): the list it
\* returns, or IndexError raised by cluster['movies'][0] in the report.
check_cluster_movies(clusters) ==
    LET ids == Sorted(DOMAIN clusters \ {-1})
        short == SelectSeq(ids, LAMBDA c : Cardinality(movies_of(clusters[c])) < 2)
        single == [i \in DOMAIN short |->
                     [cluster_id |-> short[i],
                      screenshot_count |-> Len(clusters[short[i]]),
                      movies |-> movies_of(clusters[short[i]])]]
    IN IF \E i \in Printed(single) : single[i].movies = {}
       THEN [raised |-> "IndexError", single_movie_clusters |-> <<>>]
       ELSE [raised |-> "no", single_movie_clusters |-> single]

\* A labelling as the clusterer gives it: every cluster but the noise has
\* MinClusterSize members or more.
Labellings(n) ==
    {cl \in [1..n -> Labels] :
        \A l \in 0..MaxLabel :
           Cardinality({i \in 1..n : cl[i] = l}) \in {0} \cup (MinClusterSize..n)}

ClusterInit ==
    /\ ProcIdle("cluster")
    /\ \E S \in SUBSET Origins :
          /\ Cardinality(S) \in 1..MaxCorpus
          /\ arg \in [corpus : {ListOf(S)}, cluster_labels : Labellings(Cardinality(S))]
    /\ ret = <<>>

\* main of cluster_hdbscan.py from analyze_clusters on (lines 201-208)
ClusterAssign ==
    /\ ret = <<>>
    /\ LET keys == [i \in DOMAIN arg.corpus |-> arg.corpus[i].key]
       IN ret' = [at |-> "clustered",
                  clusters |-> analyze_clusters(keys, arg.cluster_labels),
                  reverse_index |-> save_reverse_index(keys, arg.cluster_labels)]
    /\ UNCHANGED <<arg, procVars>>

\* check_cluster_movies over the clusters.json just written
ClusterCheckMovies ==
    /\ ret # <<>>
    /\ ret.at = "clustered"
    /\ ret' = [at |-> "checked",
               clusters |-> ret.clusters,
               reverse_index |-> ret.reverse_index,
               checked |-> check_cluster_movies(ret.clusters)]
    /\ UNCHANGED <<arg, procVars>>

ClusterNext ==
    \/ ClusterAssign
    \/ ClusterCheckMovies

ClusterSpec == ClusterInit /\ [][ClusterNext]_vars

(***************************************************************************)
(* Timeline: build_timeline_data.py                                        *)
(***************************************************************************)
MaxRunLen == 3

GridSteps == 100

\* Frame numbers to choose from: 10, 11, 12 in a row, and 50, 51, 100.
FrameUniverse ==
    (10..(10 + MaxRunLen - 1)) \cup {50, 51, 100}

\* The loop of find_sequences from frame_numbers[i] on (lines 64-71), i
\* counted from 1.
RECURSIVE sequences_loop(_, _, _, _)
sequences_loop(frame_numbers, i, sequences, current_seq) ==
    IF i > Len(frame_numbers) THEN Append(sequences, current_seq)
    ELSE IF frame_numbers[i] = current_seq[Len(current_seq)] + 1
         THEN sequences_loop(frame_numbers, i + 1, sequences,
                             Append(current_seq, frame_numbers[i]))
    ELSE sequences_loop(frame_numbers, i + 1, Append(sequences, current_seq),
                        <<frame_numbers[i]>>)

\* mutant: the frame numbers are taken in the order they come in
find_sequences_Unsorted(frame_numbers) ==
    IF frame_numbers = <<>> THEN <<>>
    ELSE sequences_loop(frame_numbers, 2, <<>>, <<frame_numbers[1]>>)

find_sequences(frame_numbers) ==
    IF frame_numbers = <<>> THEN <<>>
    ELSE LET ordered == sorted(frame_numbers)
         IN sequences_loop(ordered, 2, <<>>, <<ordered[1]>>)

SequenceInit ==
    /\ ProcIdle("sequences")
    /\ \E S \in SUBSET FrameUniverse : arg \in [frame_numbers : Orders(S)]
    /\ ret = <<>>

FindSequences ==
    /\ ret = <<>>
    /\ ret' = [sequences |-> find_sequences(arg.frame_numbers)]
    /\ UNCHANGED <<arg, procVars>>

SequenceNext ==
    FindSequences

SequenceSpec == SequenceInit /\ [][SequenceNext]_vars

\* math.ceil(a / b) for a >= 0 and b > 0
CeilDiv(a, b) ==
    (a + b - 1) \div b

\* mutant: rounded down
round_up_to_nearest_5_percent_Down(percentage) ==
    [num |-> (percentage.num * 20) \div percentage.den, den |-> 20]

\* math.ceil(percentage * 20) / 20, percentage and the result fractions
\* num / den.  On the grid of hundredths the floating-point evaluation
\* gives these very values: i / 100 * 20 never lands above the integer it
\* equals, and j / 20 * 20 is j for every j in 0..20.
round_up_to_nearest_5_percent(percentage) ==
    [num |-> CeilDiv(percentage.num * 20, percentage.den), den |-> 20]

RoundInit ==
    /\ ProcIdle("round")
    /\ arg \in [num : 0..GridSteps, den : {GridSteps}]
    /\ ret = <<>>

\* f(x)
RoundOnce ==
    /\ ret = <<>>
    /\ ret' = <<round_up_to_nearest_5_percent(arg)>>
    /\ UNCHANGED <<arg, procVars>>

\* f(f(x))
RoundAgain ==
    /\ Len(ret) = 1
    /\ ret' = Append(ret, round_up_to_nearest_5_percent(ret[1]))
    /\ UNCHANGED <<arg, procVars>>

RoundNext ==
    \/ RoundOnce
    \/ RoundAgain

RoundSpec == RoundInit /\ [][RoundNext]_vars

(***************************************************************************)
(* The consumers of clusters.json: the timeline (main of                   *)
(* build_timeline_data.py), the content check's collection of screenshots  *)
(* and the movie count.  Durations are whole seconds; None and 0.0, which  *)
(* `if duration:` treats alike, are both the duration 0.                   *)
(***************************************************************************)
FRAME_STRIDE == 5

MaxTimelineFrame == 3

\* Durations of the videos in seconds.  Frame n is taken at second
\* (n - 1) * FRAME_STRIDE (prepare_dir.py, line 22), so a video of either
\* duration has the frames 1..MaxTimelineFrame.
DurationChoices ==
    {FRAME_STRIDE * (MaxTimelineFrame - 1) + 2, FRAME_STRIDE * (MaxTimelineFrame + 4)}

TimelineKeys ==
    {screenshot_name(v, n) : v \in Videos, n \in 1..MaxTimelineFrame}
    \cup {<<"A", ".jpg">>}

\* parse_filename of build_timeline_data.py; ok = FALSE stands for
\* (None, None)
timeline_parse_filename(filename) ==
    LET places == {p \in DOMAIN filename : filename[p] = "__"}
        p == CHOOSE q \in places : \A r \in places : r <= q
        frame_str == SelectSeq(SubSeq(filename, p + 1, Len(filename)),
                               LAMBDA t : t # ".jpg")
    IN IF places = {} \/ frame_str = <<>> \/ \E i \in DOMAIN frame_str : ~IsDigit(frame_str[i])
       THEN [ok |-> FALSE, video_name |-> <<>>, frame_number |-> 0]
       ELSE [ok |-> TRUE, video_name |-> SubSeq(filename, 1, p - 1),
             frame_number |-> int(frame_str)]

\* `if video_name and frame_number:`
Grouped(filename) ==
    LET parsed == timeline_parse_filename(filename)
    IN parsed.ok /\ parsed.video_name # <<>> /\ parsed.frame_number # 0

\* The elements of s, each once, in the order of their first appearance.
RECURSIVE FirstSeen(_)
FirstSeen(s) ==
    IF s = <<>> THEN <<>>
    ELSE LET front == FirstSeen(SubSeq(s, 1, Len(s) - 1))
         IN IF s[Len(s)] \in SeqSet(front) THEN front ELSE Append(front, s[Len(s)])

\* The keys of video_groups in dict order, and the list of one key
\* (lines 111-115).
video_names(screenshots) ==
    LET grouped == SelectSeq(screenshots, Grouped)
    IN FirstSeen([i \in DOMAIN grouped |-> timeline_parse_filename(grouped[i]).video_name])

video_group(screenshots, video_name) ==
    LET mine == SelectSeq(screenshots,
                          LAMBDA f : Grouped(f)
                                     /\ timeline_parse_filename(f).video_name = video_name)
    IN [i \in DOMAIN mine |-> timeline_parse_filename(mine[i]).frame_number]

\* mutant: a video without duration is given one
get_video_duration_Default(durations, video_name) ==
    IF durations[video_name] = 0 THEN FRAME_STRIDE * (MaxTimelineFrame + 4)
    ELSE durations[video_name]

\* get_video_duration: what ffprobe says of the video, 0 when there is no
\* such file or ffprobe fails
get_video_duration(durations, video_name) ==
    durations[video_name]

\* mutant: the element before the centre of an even run
middle_frame_Before(seq) ==
    seq[((Len(seq) - 1) \div 2) + 1]

\* seq[len(seq) // 2]
middle_frame(seq) ==
    seq[(Len(seq) \div 2) + 1]

\* The points of one video (lines 130-150).
video_points(video_name, frame_numbers, duration) ==
    LET sequences == find_sequences(frame_numbers)
    IN [i \in DOMAIN sequences |->
           LET timestamp_seconds == middle_frame(sequences[i]) * FRAME_STRIDE
           IN [video |-> video_name,
               percentage |-> round_up_to_nearest_5_percent(
                                  [num |-> timestamp_seconds, den |-> duration]),
               count |-> Len(sequences[i]),
               frames |-> sequences[i],
               timestamp |-> timestamp_seconds]]

\* timeline_points of one cluster (lines 118-150): the videos without
\* duration are passed over.
timeline_points_of(screenshots, durations) ==
    LET names == video_names(screenshots)
    IN Concat([i \in DOMAIN names |->
                  IF get_video_duration(durations, names[i]) = 0 THEN <<>>
                  ELSE video_points(names[i], video_group(screenshots, names[i]),
                                    get_video_duration(durations, names[i]))])

\* mutant: a later point at a percentage takes the place of the earlier ones
percentage_counts_Last(timeline_points) ==
    [n \in {timeline_points[i].percentage.num : i \in DOMAIN timeline_points} |->
        LET last == CHOOSE i \in DOMAIN timeline_points :
                       /\ timeline_points[i].percentage.num = n
                       /\ \A j \in DOMAIN timeline_points :
                             timeline_points[j].percentage.num = n => j <= i
        IN [count |-> timeline_points[last].count,
            videos |-> {timeline_points[last].video}]]

\* count += point["count"] over the points at the percentage n / 20
RECURSIVE count_at(_, _)
count_at(timeline_points, n) ==
    IF timeline_points = <<>> THEN 0
    ELSE (IF Head(timeline_points).percentage.num = n
          THEN Head(timeline_points).count ELSE 0)
         + count_at(Tail(timeline_points), n)

\* percentage_counts (lines 153-157), keyed by the numerator of the
\* percentage
percentage_counts(timeline_points) ==
    [n \in {timeline_points[i].percentage.num : i \in DOMAIN timeline_points} |->
        [count |-> count_at(timeline_points, n),
         videos |-> {timeline_points[i].video :
                       i \in {j \in DOMAIN timeline_points :
                                 timeline_points[j].percentage.num = n}}]]

\* mutant: the points are put out largest percentage first
final_points_Descending(counts) ==
    LET order == Sorted(DOMAIN counts)
    IN [i \in DOMAIN order |->
           [percentage |-> [num |-> order[Len(order) + 1 - i], den |-> 20],
            count |-> counts[order[Len(order) + 1 - i]].count,
            videos |-> counts[order[Len(order) + 1 - i]].videos]]

\* final_points (lines 160-166): sorted(percentage_counts.items())
final_points(counts) ==
    LET order == Sorted(DOMAIN counts)
    IN [i \in DOMAIN order |->
           [percentage |-> [num |-> order[i], den |-> 20],
            count |-> counts[order[i]].count,
            videos |-> counts[order[i]].videos]]

\* The record of one cluster (lines 105-173), with its timeline_points.
cluster_data(cluster_id, screenshots, durations) ==
    LET timeline_points == timeline_points_of(screenshots, durations)
    IN [cluster_id |-> cluster_id,
        screenshot_count |-> Len(screenshots),
        timeline_points |-> timeline_points,
        points |-> final_points(percentage_counts(timeline_points))]

\* sort(key=lambda c: c["screenshot_count"], reverse=True), which is stable
RECURSIVE sort_by_screenshot_count(_)
sort_by_screenshot_count(records) ==
    IF records = <<>> THEN <<>>
    ELSE LET i == CHOOSE j \in DOMAIN records :
                    /\ \A k \in DOMAIN records :
                          records[k].screenshot_count <= records[j].screenshot_count
                    /\ \A k \in 1..(j - 1) :
                          records[k].screenshot_count < records[j].screenshot_count
         IN <<records[i]>>
            \o sort_by_screenshot_count(SubSeq(records, 1, i - 1)
                                        \o SubSeq(records, i + 1, Len(records)))

\* timeline_data["clusters"] (lines 101-178): a record for every cluster
\* but "-1", largest cluster first
timeline_clusters(clusters, durations) ==
    LET ids == SelectSeq(Sorted(DOMAIN clusters), LAMBDA c : c # -1)
    IN sort_by_screenshot_count(
           [i \in DOMAIN ids |-> cluster_data(ids[i], clusters[ids[i]], durations)])

\* mutant: the members of every entry of clusters.json are collected
collect_all_screenshots_All(clusters) ==
    UNION {SeqSet(clusters[c]) : c \in DOMAIN clusters}

\* all_screenshots of the content check (lines 172-176)
collect_all_screenshots(clusters) ==
    UNION {SeqSet(clusters[c]) : c \in DOMAIN clusters \ {-1}}

\* clusters.json with the cluster 0 and, or not, the noise points -1.
ConsumerInit ==
    /\ ProcIdle("consumer")
    /\ \E S \in SUBSET TimelineKeys : \E noise \in BOOLEAN :
          /\ S # {}
          /\ arg \in [clusters : {IF noise /\ S # TimelineKeys
                                   THEN (-1 :> ListOf(TimelineKeys \ S)) @@ (0 :> ListOf(S))
                                   ELSE (0 :> ListOf(S))},
                      durations : [Videos -> {0} \cup DurationChoices]]
    /\ ret = <<>>

\* main of build_timeline_data.py
ConsumeTimeline ==
    /\ ret = <<>>
    /\ ret' = [by |-> "timeline",
               clusters |-> timeline_clusters(arg.clusters, arg.durations)]
    /\ UNCHANGED <<arg, procVars>>

\* main of the content check up to all_screenshots
ConsumeContent ==
    /\ ret = <<>>
    /\ ret' = [by |-> "content",
               all_screenshots |-> collect_all_screenshots(arg.clusters)]
    /\ UNCHANGED <<arg, procVars>>

\* check_cluster_movies
ConsumeMovieCount ==
    /\ ret = <<>>
    /\ ret' = [by |-> "movie_count", checked |-> check_cluster_movies(arg.clusters)]
    /\ UNCHANGED <<arg, procVars>>

ConsumerNext ==
    \/ ConsumeTimeline
    \/ ConsumeContent
    \/ ConsumeMovieCount

ConsumerSpec == ConsumerInit /\ [][ConsumerNext]_vars

\* clusters.json whose keys count their frames from 0, every member a key
\* of the form <video>__<digits>.jpg.
FrameZeroInit ==
    /\ ProcIdle("consumer")
    /\ \E S \in SUBSET {screenshot_name(v, n) : v \in Videos, n \in 0..MaxTimelineFrame} :
          /\ S # {}
          /\ arg \in [clusters : {0 :> ListOf(S)},
                      durations : [Videos -> {0} \cup DurationChoices]]
    /\ ret = <<>>

FrameZeroSpec == FrameZeroInit /\ [][ConsumeTimeline]_vars

(***************************************************************************)
(* The video name each component takes from a key.                         *)
(***************************************************************************)
MaxKeyFrame == 30

\* get_screenshot_path of the content check: filename.rsplit('__', 1)[0],
\* None (here ok = FALSE) without '__'
content_video_name(filename) ==
    LET places == {p \in DOMAIN filename : filename[p] = "__"}
    IN IF places = {} THEN [ok |-> FALSE, video_name |-> <<>>]
       ELSE [ok |-> TRUE,
             video_name |-> SubSeq(filename, 1,
                                   (CHOOSE p \in places : \A q \in places : q <= p) - 1)]

\* get_screenshot_path of check_for_all_black_clusters.py:
\* filename.split('__')[0] when the split has two parts or more
black_video_name(filename) ==
    LET places == {p \in DOMAIN filename : filename[p] = "__"}
    IN IF places = {} THEN [ok |-> FALSE, video_name |-> <<>>]
       ELSE [ok |-> TRUE,
             video_name |-> SubSeq(filename, 1,
                                   (CHOOSE p \in places : \A q \in places : p <= q) - 1)]

\* A key <video>__<digits>.jpg and the video and frame it was made from.
KeyInit ==
    /\ ProcIdle("key")
    /\ \E v \in Videos : \E n \in 0..MaxKeyFrame :
          arg = [video |-> v, frame |-> n, key |-> screenshot_name(v, n)]
    /\ ret = <<>>

\* Every component derives the video (and the frame) from the key.
DeriveSourceKey ==
    /\ ret = <<>>
    /\ ret' = [neighbors |-> extract_movie_and_frame(arg.key),
               timeline |-> timeline_parse_filename(arg.key),
               movie_count |-> parse_filename(arg.key),
               content |-> content_video_name(arg.key),
               black |-> black_video_name(arg.key)]
    /\ UNCHANGED <<arg, procVars>>

KeySpec == KeyInit /\ [][DeriveSourceKey]_vars

(***************************************************************************)
(* The public viewer's filter over the ledger of the content check.        *)
(***************************************************************************)
MaxFilterKeys == 3

\* What the content check did for a screenshot: nothing yet, an answer parsed
\* as nudity true or false, an answer that did not parse, or an error.
CheckOutcomes == {"missing", "true", "false", "unparsed", "error"}

\* The entry the content check leaves in its ledger (check_image_content,
\* lines 100-105; process_batch, lines 142-157): an answer that does not
\* parse is stored as {"nudity": False}, an error as {"nudity": False,
\* "error": ...}.
ledger_entry(o) ==
    [present |-> o # "missing", nudity |-> o = "true", error |-> o = "error"]

\* filter_safe_clusters: content_check.get(filename, {}).get('nudity', False)
\* over the screenshots of each cluster but "-1"
filter_safe_clusters(clusters, content_check) ==
    LET ids == DOMAIN clusters \ {-1}
        has_nudity(c) == \E filename \in clusters[c] :
                            content_check[filename].present /\ content_check[filename].nudity
    IN [safe_clusters |-> {c \in ids : ~has_nudity(c)},
        unsafe_clusters |-> {c \in ids : has_nudity(c)}]

\* clusters.json over the screenshots 1..MaxFilterKeys (label -1, 0 or 1 for
\* each) and what the content check did for each screenshot.
FilterInit ==
    /\ ProcIdle("filter")
    /\ \E labelling \in [1..MaxFilterKeys -> {-1, 0, 1}] :
          arg \in [clusters : {[c \in {labelling[k] : k \in 1..MaxFilterKeys} |->
                                  {k \in 1..MaxFilterKeys : labelling[k] = c}]},
                      checks : [1..MaxFilterKeys -> CheckOutcomes]]
    /\ ret = <<>>

FilterSafeClusters ==
    /\ ret = <<>>
    /\ ret' = filter_safe_clusters(arg.clusters,
                                    [k \in 1..MaxFilterKeys |-> ledger_entry(arg.checks[k])])
    /\ UNCHANGED <<arg, procVars>>

FilterSpec == FilterInit /\ [][FilterSafeClusters]_vars

(***************************************************************************)
(* Removal of clusters from the cluster files, with backup.  A file is     *)
(* [exists, data], data the set of cluster ids it has an entry for.  ret   *)
(* holds the files and their backups, both as they were before the latest  *)
(* prompt, the ids and the answer of that prompt, and the number of        *)
(* prompts so far.                                                         *)
(***************************************************************************)
MaxClusterId == 1

MaxRemovals == 2

files_to_update == {"clusters.json", "clusters_with_descriptions.json", "cluster_llm_labels.json"}

\* mutant: the backup is written from the data after the removal
remove_clusters_from_files_BackupAfter(files, backups, cluster_ids_to_remove) ==
    [files |-> [f \in files_to_update |->
                  IF files[f].exists
                  THEN [exists |-> TRUE, data |-> files[f].data \ cluster_ids_to_remove]
                  ELSE files[f]],
     backups |-> [f \in files_to_update |->
                    IF files[f].exists
                    THEN [exists |-> TRUE, data |-> files[f].data \ cluster_ids_to_remove]
                    ELSE backups[f]]]

\* remove_clusters_from_files: for every file that exists, the backup gets
\* the data as loaded and the file the data without the ids
remove_clusters_from_files(files, backups, cluster_ids_to_remove) ==
    [files |-> [f \in files_to_update |->
                  IF files[f].exists
                  THEN [exists |-> TRUE, data |-> files[f].data \ cluster_ids_to_remove]
                  ELSE files[f]],
     backups |-> [f \in files_to_update |->
                    IF files[f].exists THEN files[f] ELSE backups[f]]]

\* clusters.json is there (the check has read it); the two other files may
\* be missing; no backup yet.
MaintInit ==
    /\ ProcIdle("maintenance")
    /\ arg = <<>>
    /\ \E files \in [files_to_update ->
                        [exists : BOOLEAN, data : SUBSET (-1..MaxClusterId)]] :
          /\ files["clusters.json"].exists
          /\ \A f \in files_to_update : ~files[f].exists => files[f].data = {}
          /\ ret = [files |-> files,
                    backups |-> [f \in files_to_update |-> [exists |-> FALSE, data |-> {}]],
                    before |-> files,
                    before_backups |-> [f \in files_to_update |->
                                          [exists |-> FALSE, data |-> {}]],
                    cluster_ids |-> {},
                    response |-> "",
                    prompts |-> 0]

\* main of either check from its prompt on: the ids are clusters of
\* clusters.json other than -1 that the check has listed; the files are
\* touched only after the answer 'y'.
MaintMain ==
    /\ ret.prompts < MaxRemovals
    /\ \E cluster_ids \in SUBSET (ret.files["clusters.json"].data \ {-1}) :
       \E response \in {"y", "n"} :
          /\ cluster_ids # {}
          /\ LET after == IF response = "y"
                          THEN remove_clusters_from_files(ret.files, ret.backups, cluster_ids)
                          ELSE [files |-> ret.files, backups |-> ret.backups]
             IN ret' = [files |-> after.files,
                        backups |-> after.backups,
                        before |-> ret.files,
                        before_backups |-> ret.backups,
                        cluster_ids |-> cluster_ids,
                        response |-> response,
                        prompts |-> ret.prompts + 1]
    /\ UNCHANGED <<arg, procVars>>

MaintSpec == MaintInit /\ [][MaintMain]_vars

(***************************************************************************)
(* The entry points and their inputs: what main prints first when an input *)
(* is missing, the exit status of the process and the number of input      *)
(* files it went on to work through.                                       *)
(***************************************************************************)
MaxFiles == 2

\* A directory that is not there holds no files.
EntryInit ==
    /\ ProcIdle("entry")
    /\ arg \in [data_dir : BOOLEAN, json_files : 0..MaxFiles,
                embeddings_dir : BOOLEAN, embedding_files : 0..MaxFiles,
                screenshots_dir : BOOLEAN, directories : 0..MaxFiles,
                api_key : BOOLEAN]
    /\ ~arg.data_dir => arg.json_files = 0
    /\ ~arg.embeddings_dir => arg.embedding_files = 0
    /\ ~arg.screenshots_dir => arg.directories = 0
    /\ ret = <<>>

\* main of add_embeddings.py
AddEmbeddingsMain ==
    /\ ret = <<>>
    /\ ret' = IF ~arg.data_dir
              THEN [entry |-> "add_embeddings", message |-> "Error: data not found",
                    exit_status |-> 1, work |-> 0]
              ELSE IF arg.json_files = 0
              THEN [entry |-> "add_embeddings", message |-> "No JSON files found",
                    exit_status |-> 1, work |-> 0]
              ELSE IF ~arg.api_key
              THEN [entry |-> "add_embeddings", message |-> "Error: GOOGLE_GENAI not set",
                    exit_status |-> 1, work |-> 0]
              ELSE [entry |-> "add_embeddings", message |-> "",
                    exit_status |-> 0, work |-> arg.json_files]
    /\ UNCHANGED <<arg, procVars>>

\* main of send_images_to_llm.py: `return` leaves the process with status 0,
\* and a pool over no directories maps nothing.
SendImagesMain ==
    /\ ret = <<>>
    /\ ret' = IF ~arg.screenshots_dir
              THEN [entry |-> "send_images_to_llm",
                    message |-> "Error: Screenshots directory not found",
                    exit_status |-> 0, work |-> 0]
              ELSE [entry |-> "send_images_to_llm", message |-> "",
                    exit_status |-> 0, work |-> arg.directories]
    /\ UNCHANGED <<arg, procVars>>

\* main of build_nearest_neighbors.py
NearestNeighborsMain ==
    /\ ret = <<>>
    /\ ret' = IF ~arg.embeddings_dir
              THEN [entry |-> "build_nearest_neighbors",
                    message |-> "Error: data_embeddings not found",
                    exit_status |-> 1, work |-> 0]
              ELSE IF arg.embedding_files = 0
              THEN [entry |-> "build_nearest_neighbors", message |-> "No JSON files found",
                    exit_status |-> 1, work |-> 0]
              ELSE [entry |-> "build_nearest_neighbors", message |-> "",
                    exit_status |-> 0, work |-> arg.embedding_files]
    /\ UNCHANGED <<arg, procVars>>

EntryNext ==
    \/ AddEmbeddingsMain
    \/ SendImagesMain
    \/ NearestNeighborsMain

EntrySpec == EntryInit /\ [][EntryNext]_vars

(***************************************************************************)
(* The pool of worker processes and the clients of the collaborator.       *)
(* pool.map hands the tasks (batches of the content check, directories of  *)
(* the image run) to whichever worker is free; the worker function makes a *)
(* client and calls the collaborator once for every item of the task.      *)
(* ret holds the tasks not yet taken, each worker's client and items left, *)
(* the clients made (by their maker) and the calls made (client, worker).  *)
(***************************************************************************)
MaxTasks == 2

MaxTaskItems == 2

\* mutant: one client is made and every later worker is given the same one
get_client_Shared(clients, w) ==
    IF clients = <<>> THEN <<w>> ELSE clients

\* get_client(): a new client instance in the process of worker w
get_client(clients, w) ==
    Append(clients, w)

\* mutant: every directory is given the ledger file of the first one
output_file_Shared(dir_name) ==
    <<1, ".json">>

\* output_file = os.path.join(DATA_DIR, f"{dir_name}.json"); the directories
\* of os.listdir are distinct names, here the numbers of the tasks
output_file(dir_name) ==
    <<dir_name, ".json">>

\* ret holds, besides, the ledger files of the image run (the set of images
\* each holds), the task and the in-memory results of each worker, every
\* result recorded so far and every write made (file, worker, directory).
PoolInit ==
    /\ ProcIdle("pool")
    /\ arg \in [entry : {"content", "image"},
                tasks : UNION {[1..n -> 0..MaxTaskItems] : n \in 1..MaxTasks}]
    /\ arg.entry = "content" => \A i \in DOMAIN arg.tasks : arg.tasks[i] > 0
    /\ ret = [queue |-> arg.tasks,
              worker |-> [w \in 1..MAX_WORKERS |->
                            [client |-> 0, left |-> 0, task |-> 0, results |-> {}]],
              clients |-> <<>>,
              uses |-> {},
              files |-> [f \in {output_file(d) : d \in DOMAIN arg.tasks} |-> {}],
              recorded |-> {},
              writes |-> {}]

\* process_batch / process_directory entered by the free worker w: it makes
\* its client and, in the image run, loads the ledger of its directory
PoolTakeTask(w) ==
    /\ ret.queue # <<>>
    /\ ret.worker[w].left = 0
    /\ LET clients == get_client(ret.clients, w)
           task == Len(arg.tasks) - Len(ret.queue) + 1
       IN ret' = [ret EXCEPT !.queue = Tail(@),
                             !.clients = clients,
                             !.worker[w] =
                                 [client |-> Len(clients),
                                  left |-> Head(ret.queue),
                                  task |-> task,
                                  results |-> IF arg.entry = "image"
                                              THEN ret.files[output_file(task)]
                                              ELSE {}]]
    /\ UNCHANGED <<arg, procVars>>

\* check_image_content / process_image called by worker w with its client.
\* The image run puts the result of a call that returned into results and
\* rewrites the ledger file with save_progress; the content check keeps the
\* result (or the error entry) in the results it will return.
PoolCall(w) ==
    /\ ret.worker[w].left > 0
    /\ \E returned \in BOOLEAN :
          LET me == ret.worker[w]
              item == <<me.task, me.left>>
              mine == IF returned \/ arg.entry = "content"
                         THEN me.results \cup {item} ELSE me.results
              saved == arg.entry = "image" /\ returned
          IN ret' = [ret EXCEPT
                        !.uses = @ \cup {<<me.client, w>>},
                        !.worker[w].left = @ - 1,
                        !.worker[w].results = mine,
                        !.files = IF saved
                                  THEN [@ EXCEPT ![output_file(me.task)] = mine]
                                  ELSE @,
                        !.recorded = IF saved THEN @ \cup {item} ELSE @,
                        !.writes = IF saved
                                   THEN @ \cup {<<output_file(me.task), w, me.task>>}
                                   ELSE @]
    /\ UNCHANGED <<arg, procVars>>

PoolNext ==
    \E w \in 1..MAX_WORKERS :
       \/ PoolTakeTask(w)
       \/ PoolCall(w)

PoolSpec == PoolInit /\ [][PoolNext]_vars

(***************************************************************************)
(* Properties.                                                             *)
(***************************************************************************)
Enrichers == {"content", "embed", "image"}

\* The keys of the batch b of the current run.
BatchKeys(b) ==
    SeqSet(batches[b])

\* The batch b has finished: its worker is through (content check), or the
\* loop has moved past it (embeddings).
BatchFinished(b) ==
    IF prog = "content" THEN wpos[b] = Len(batches[b]) ELSE b < idx

\* C1: after a completed run over an unchanged item set, the next run makes
\* no external call and leaves the ledger file as it found it.
C1_IdempotentRerun ==
    (prog \in Enrichers /\ run >= 2 /\ prev = "done")
        => /\ \A k \in Items : calls[k] = 0
           /\ file = loaded

\* C2: when a run is over, every key that was unprocessed at its start has
\* a ledger entry, valid or error-marked.
C2_NoLoss ==
    (prog \in Enrichers /\ pc = "done")
        => \A k \in Items \ Keys(loaded) : file[k] # NoEntry

\* C3: while a run is under way (or has just been killed between writes),
\* the ledger file holds the results of every batch that has finished.
C3_CheckpointAfterEveryBatch ==
    (prog \in {"content", "embed"} /\ pc \in Running \cup {"killed"}
       /\ file_state # "partial")
        => \A b \in DOMAIN batches :
              BatchFinished(b) => \A k \in BatchKeys(b) : file[k] # NoEntry

\* C4: the ledger file is at every instant a complete mapping (or not yet
\* there), never a file cut off in the middle of a write.
C4_LedgerFileAlwaysComplete ==
    file_state \in {"absent", "valid"}

\* C5 as claimed: every completed write of any processor, classification
\* included, keeps every key the file held before it.
C5_MonotonicGrowth_AllProcessors ==
    [][(file_state = "valid" /\ file_state' = "valid")
          => Keys(file) \subseteq Keys(file')]_vars

\* The run works on top of what it loaded (it did not start afresh).
Resumed ==
    Keys(loaded) \subseteq Keys(results)

\* C5 amended: every completed write of a content-check, embedding or image
\* run, and of a classification run that works on top of the loaded ledger,
\* keeps every key the file held before it.
C5_MonotonicGrowth ==
    [][(file_state = "valid" /\ file_state' = "valid"
          /\ (prog = "classify" => Resumed))
          => Keys(file) \subseteq Keys(file')]_vars

\* C5 witness: a later run has written new entries on top of earlier ones.
C5_Witness ==
    /\ prog \in Enrichers
    /\ run = 2
    /\ file_state = "valid"
    /\ \E k \in Items : calls[k] > 0 /\ loaded[k] = NoEntry /\ file[k] # NoEntry
    /\ \E j \in Items : loaded[j] # NoEntry /\ file[j] = loaded[j]

\* The batch b was handed to the collaborator in this run.
Attempted(b) ==
    \A k \in BatchKeys(b) : calls[k] > 0

\* The call for the batch b raised.
BatchRaised(b) ==
    \E k \in BatchKeys(b) : outcome[k] = "raised"

\* C6 as claimed: an embedding run that has ended has attempted every one of
\* its batches, a failed batch notwithstanding.
C6_FailedBatchDoesNotAbort ==
    (prog = "embed" /\ pc \in {"done", "failed"})
        => \A b \in DOMAIN batches : Attempted(b)

\* C6 amended: when the call for a batch raises, process_file stops there:
\* the file keeps exactly the batches saved before, the failed batch has no
\* entry, and no later batch of the run is attempted.
C6_FailedBatchStopsFile ==
    prog = "embed"
        => \A b \in DOMAIN batches :
              BatchRaised(b)
                 => /\ pc = "failed"
                    /\ idx = b
                    /\ file_state # "partial"
                    /\ file = results
                    /\ \A a \in 1..(b - 1) : \A k \in BatchKeys(a) : file[k] = "embedding"
                    /\ \A k \in BatchKeys(b) : file[k] = NoEntry /\ calls[k] = 1
                    /\ \A c \in (b + 1)..Len(batches) :
                          \A k \in BatchKeys(c) : calls[k] = 0 /\ file[k] = NoEntry

\* C6 witness: the first of two batches failed, and the run is over with
\* the second batch never handed to the collaborator.
C6_Witness ==
    /\ prog = "embed"
    /\ pc = "failed"
    /\ idx = 1
    /\ Len(batches) = 2
    /\ BatchRaised(1)
    /\ ~Attempted(2)

\* C7: an item whose answer failed both parses ends the run with an
\* error-marked ledger entry.
C7_UnparseableIsErrorMarked ==
    (prog \in {"content", "image"} /\ pc = "done")
        => \A k \in Items : outcome[k] = "unparseable" => ErrorMarked(file[k])

\* C8: an item whose external call raised ends the run with an error-marked
\* ledger entry, and every other item of the run has been handled.
C8_RaisedIsErrorMarked ==
    (prog \in {"content", "image"} /\ pc = "done")
        => /\ \A k \in Items : outcome[k] = "raised" => ErrorMarked(file[k])
           /\ \A k \in Items \ Keys(loaded) : outcome[k] # "none"

\* C9: a key whose path does not resolve gets no external call and the
\* file_not_found entry, and the worker goes on: at the end of the run every
\* key of the run has its entry.
C9_MissingContent ==
    prog = "content"
        => /\ \A b \in DOMAIN batches : \A i \in 1..wpos[b] :
                 LET k == batches[b][i]
                 IN kind[k] # "present"
                       => /\ calls[k] = 0
                          /\ outcome[k] = "not_found"
                          /\ pending[k] = "error_file_not_found"
           /\ pc # "crashed" \/ file_state = "partial"
           /\ pc = "done"
                 => \A k \in SeqSet(unprocessed) :
                       /\ file[k] # NoEntry
                       /\ kind[k] # "present" => file[k] = "error_file_not_found"

\* C9 witness: a worker met a key without a file, then called the
\* collaborator for the next key of its batch.
C9_Witness ==
    /\ prog = "content"
    /\ pc = "pool"
    /\ \E b \in DOMAIN batches :
          /\ wpos[b] = 2
          /\ kind[batches[b][1]] \in {"missing_file", "no_delimiter"}
          /\ pending[batches[b][1]] = "error_file_not_found"
          /\ calls[batches[b][2]] = 1

\* C10: the batches are pairwise disjoint, their concatenation in batch order
\* is the unprocessed list, and every item is in exactly one batch.
C10_PartitionCoverage ==
    pc \in {"content_split", "embed_split"}
        => /\ Concat(batches) = unprocessed
           /\ \A a, b \in DOMAIN batches : a # b => BatchKeys(a) \cap BatchKeys(b) = {}
           /\ \A x \in SeqSet(unprocessed) :
                 Cardinality({<<b, i>> \in (DOMAIN batches) \X (1..(MaxPartItems + 1)) :
                                 i <= Len(batches[b]) /\ batches[b][i] = x}) = 1

\* C10 witness: a list split into three batches or more, the last one short.
C10_Witness ==
    /\ pc = "content_split"
    /\ Len(batches) >= 3
    /\ Len(batches[Len(batches)]) < batch_size

\* C11: in every run, no external call is made for a key that is in the
\* ledger loaded at the start of the run; and a run that finds every key in
\* the loaded ledger makes no call and leaves the ledger file as it is (the
\* content check and the embedding run are over at once).
C11_OnlyUnprocessedSubmitted ==
    prog \in Enrichers
        => /\ \A k \in Items : loaded[k] # NoEntry => calls[k] = 0
           /\ (run >= 1 /\ pc # "crashed" /\ Keys(loaded) = Items)
                 => /\ \A k \in Items : calls[k] = 0
                    /\ file = loaded
                    /\ file_state = "valid"
                    /\ prog \in {"content", "embed"}
                          => pc = "done" /\ unprocessed = <<>> /\ batches = <<>>

\* C11 witness: an embedding run resumed over a ledger that holds some keys:
\* it has called for a missing key and not for a loaded one.
C11_Witness ==
    /\ prog = "embed"
    /\ run = 2
    /\ \E k \in Items : loaded[k] # NoEntry /\ calls[k] = 0
    /\ \E j \in Items : loaded[j] = NoEntry /\ calls[j] > 0

\* C13: in the content check, a batch whose worker has finished has been
\* merged into the in-memory ledger, whether or not the batches of lower
\* index have finished.
C13_MergeInCompletionOrder ==
    (prog = "content" /\ pc = "pool")
        => \A a, b \in DOMAIN batches :
              (b < a /\ BatchFinished(a) /\ ~BatchFinished(b))
                  => \A k \in BatchKeys(a) : results[k] # NoEntry

\* The position of the key k in the list s (0 when it is not there).
IndexOf(s, k) ==
    IF k \in SeqSet(s) THEN CHOOSE i \in DOMAIN s : s[i] = k ELSE 0

\* The batches of one start hold the keys that are not in the ledger, each
\* once, in batches of one to batch_size keys.
WellSplit(r) ==
    /\ SeqSet(Concat(r.batches)) = Items \ Keys(arg.existing)
    /\ Len(Concat(r.batches)) = Cardinality(Items \ Keys(arg.existing))
    /\ \A b \in DOMAIN r.batches :
          Len(r.batches[b]) >= 1 /\ Len(r.batches[b]) <= r.batch_size

\* The keys of the batches, read batch after batch, are in ascending order.
InKeyOrder(r) ==
    LET c == Concat(r.batches)
    IN \A i, j \in DOMAIN c : i < j => c[i] < c[j]

\* The keys of the batches, read batch after batch, are in data-file order.
InFileOrder(r) ==
    LET c == Concat(r.batches)
    IN \A i, j \in DOMAIN c : i < j => IndexOf(arg.data, c[i]) < IndexOf(arg.data, c[j])

\* C12 as claimed: both processors split the unprocessed keys in sorted key
\* order.
C12_SortedOrder_AllProcessors ==
    \A n \in DOMAIN ret : InKeyOrder(ret[n])

\* C12 amended: the unprocessed keys are split in a stable order, ascending
\* key order in the content check and data-file order in the embedding run,
\* into batches of at most batch_size; two starts over the same input and
\* ledger give the same sequence of batches.
C12_DeterministicPartitioning ==
    /\ \A n \in DOMAIN ret :
          /\ WellSplit(ret[n])
          /\ arg.proc = "content" => InKeyOrder(ret[n])
          /\ arg.proc = "embed" => InFileOrder(ret[n])
    /\ \A m, n \in DOMAIN ret : ret[m] = ret[n]

\* C12 witness: two starts of the content check have split three keys or
\* more into two batches or more.
C12_Witness ==
    /\ arg.proc = "content"
    /\ Len(ret) = 2
    /\ Len(ret[2].batches) >= 2
    /\ Len(Concat(ret[2].batches)) >= 3

\* The candidate c falls under the exclusion window of the query q (q, c:
\* what the two keys come from).
InExclusionWindow(q, c) ==
    /\ q.made
    /\ c.made
    /\ q.movie = c.movie
    /\ abs(q.frame - c.frame) <= window

\* What the key k of the corpus comes from.
OriginOf(k) ==
    CHOOSE o \in SeqSet(arg.corpus) : o.key = k

\* C14: no returned candidate is a frame of the query's video within window
\* frames of the query.
C14_ExclusionCorrectness ==
    ret # <<>>
        => \A i \in DOMAIN ret.neighbors :
              ~InExclusionWindow(arg.corpus[arg.query_idx],
                                 OriginOf(ret.neighbors[i].screenshot))

\* C14 witness: the raw result held a frame of the query's video exactly
\* window frames away, and a neighbour of that same video was returned.
C14_Witness ==
    /\ ret # <<>>
    /\ \E j \in DOMAIN ret.raw :
          LET q == arg.corpus[arg.query_idx]
              c == arg.corpus[ret.raw[j]]
          IN q.made /\ c.made /\ q.movie = c.movie /\ abs(q.frame - c.frame) = window
    /\ \E i \in DOMAIN ret.neighbors :
          OriginOf(ret.neighbors[i].screenshot).movie = arg.corpus[arg.query_idx].movie

\* The ranks of the raw result whose candidate is neither the query nor in
\* its exclusion window.
PassingRanks ==
    {j \in DOMAIN ret.raw :
        /\ ret.raw[j] # arg.query_idx
        /\ ~InExclusionWindow(arg.corpus[arg.query_idx], arg.corpus[ret.raw[j]])}

\* C15: the neighbours returned are the first target_count passing
\* candidates of the raw result in its order, all of them when fewer pass,
\* and the index has been asked once.
C15_FilteredSelection ==
    ret # <<>>
        => /\ Len(ret.neighbors) = Min(arg.target_count, Cardinality(PassingRanks))
           /\ \A i \in DOMAIN ret.neighbors :
                 LET r == ret.neighbors[i].distance
                 IN /\ r \in PassingRanks
                    /\ Cardinality({j \in PassingRanks : j < r}) = i - 1
                    /\ ret.neighbors[i].screenshot = arg.corpus[ret.raw[r]].key
           /\ ret.kneighbors_calls = 1

\* C15 witness: more candidates passed than target_count, one was filtered
\* out before the last one returned.
C15_Witness ==
    /\ ret # <<>>
    /\ Cardinality(PassingRanks) > arg.target_count
    /\ Len(ret.neighbors) = arg.target_count
    /\ \E j \in DOMAIN ret.raw :
          /\ j \notin PassingRanks
          /\ ret.raw[j] # arg.query_idx
          /\ j < ret.neighbors[Len(ret.neighbors)].distance

\* C16: the number of raw candidates asked for is min(5 * target_count,
\* corpus size), and is more than target_count when the corpus is larger
\* than target_count.
C16_OverFetchSize ==
    (ret # <<>> /\ ret.at = "find_filtered_neighbors")
        => /\ ret.k = Min(5 * arg.target_count, arg.n)
           /\ arg.n > arg.target_count => ret.k > arg.target_count

\* How many times the key k stands in the member list of the label l.
TimesIn(k, l) ==
    IF l \in DOMAIN ret.clusters
    THEN Cardinality({i \in DOMAIN ret.clusters[l] : ret.clusters[l][i] = k})
    ELSE 0

\* C17: the reverse index gives a key the label l exactly when the key is
\* in the member list of l, and every key is in one member list, once.
C17_BijectionConsistency ==
    ret # <<>>
        => /\ DOMAIN ret.reverse_index = {arg.corpus[i].key : i \in DOMAIN arg.corpus}
           /\ \A k \in DOMAIN ret.reverse_index :
                 /\ \A l \in Labels : (ret.reverse_index[k] = l) <=> (TimesIn(k, l) >= 1)
                 /\ Cardinality({l \in Labels : TimesIn(k, l) >= 1}) = 1
                 /\ \A l \in Labels : TimesIn(k, l) <= 1
           /\ \A i \in DOMAIN arg.corpus :
                 ret.reverse_index[arg.corpus[i].key] = arg.cluster_labels[i]

\* C17 witness: a labelling with noise points and a cluster.
C17_Witness ==
    /\ ret # <<>>
    /\ DOMAIN ret.clusters = {-1, 0}
    /\ Len(ret.clusters[-1]) >= 1
    /\ Len(ret.clusters[0]) >= MinClusterSize

\* The videos that the members of the label l are frames of.
SourceNames(l) ==
    {o.movie : o \in {p \in SeqSet(arg.corpus) : p.made /\ ret.reverse_index[p.key] = l}}

\* C18: check_cluster_movies returns the labels other than -1 whose members
\* come from fewer than 2 videos, and no other label.
C18_MinimumSourcesFilter ==
    (ret # <<>> /\ ret.at = "checked")
        => /\ ret.checked.raised = "no"
           /\ {ret.checked.single_movie_clusters[i].cluster_id :
                  i \in DOMAIN ret.checked.single_movie_clusters}
                = {l \in DOMAIN ret.clusters \ {-1} : Cardinality(SourceNames(l)) < 2}

\* C19: the runs of find_sequences, one after the other, are the input in
\* ascending order; inside a run each value is the one before plus 1; a run
\* does not go on where the one before stopped; the frames 10, 11, 12, 50,
\* 51, 100 give [[10, 11, 12], [50, 51], [100]].
C19_RunDetection ==
    ret # <<>>
        => LET runs == ret.sequences
               all == Concat(runs)
           IN /\ SeqSet(all) = SeqSet(arg.frame_numbers)
              /\ Len(all) = Len(arg.frame_numbers)
              /\ \A i, j \in DOMAIN all : i < j => all[i] < all[j]
              /\ \A r \in DOMAIN runs :
                    /\ runs[r] # <<>>
                    /\ \A i \in 1..(Len(runs[r]) - 1) : runs[r][i + 1] = runs[r][i] + 1
                    /\ r > 1 => runs[r][1] # runs[r - 1][Len(runs[r - 1])] + 1
              /\ SeqSet(arg.frame_numbers) = {10, 11, 12, 50, 51, 100}
                    => runs = << <<10, 11, 12>>, <<50, 51>>, <<100>> >>

\* C19 witness: the frames 10, 11, 12, 50, 51, 100, handed over out of
\* order, have been split into three runs.
C19_Witness ==
    /\ ret # <<>>
    /\ SeqSet(arg.frame_numbers) = {10, 11, 12, 50, 51, 100}
    /\ arg.frame_numbers[1] = 100
    /\ Len(ret.sequences) = 3

\* a <= b for fractions num / den
LessOrEqual(a, b) ==
    a.num * b.den <= b.num * a.den

\* C20: f(x) >= x; f(x) is a multiple of 0.05 less than 0.05 above x;
\* f(f(x)) = f(x); 0.27 gives 0.30, 0.30 gives 0.30 and 0.0 gives 0.0.
C20_Rounding ==
    /\ Len(ret) >= 1
          => LET x == arg
                 y == ret[1]
             IN /\ LessOrEqual(x, y)
                /\ (y.num * 20) % y.den = 0
                /\ (y.num * x.den - x.num * y.den) * 20 < x.den * y.den
                /\ (x.den = 100 /\ x.num \in {27, 30}) => y.num * 100 = 30 * y.den
                /\ x.num = 0 => y.num = 0
    /\ Len(ret) = 2
          => ret[2].num * ret[1].den = ret[1].num * ret[2].den

\* C20 witness: a value that is no multiple of 0.05 has been rounded up,
\* and the result rounded again.
C20_Witness ==
    /\ Len(ret) = 2
    /\ (arg.num * 20) % arg.den # 0
    /\ ~LessOrEqual(ret[1], arg)
    /\ ret[2] = ret[1]

\* C28: the members of every label stand in the order in which their keys
\* stand in the input key sequence.
C28_StableGrouping ==
    ret # <<>>
        => LET keys == [i \in DOMAIN arg.corpus |-> arg.corpus[i].key]
           IN \A l \in DOMAIN ret.clusters :
                 \A i, j \in DOMAIN ret.clusters[l] :
                    i < j => IndexOf(keys, ret.clusters[l][i]) < IndexOf(keys, ret.clusters[l][j])

\* C28 witness: two members of one label with a key of another label
\* between them in the input.
C28_Witness ==
    /\ ret # <<>>
    /\ \E p, q, r \in DOMAIN arg.cluster_labels :
          /\ p < q /\ q < r
          /\ arg.cluster_labels[p] = arg.cluster_labels[r]
          /\ arg.cluster_labels[q] # arg.cluster_labels[p]
          /\ Len(ret.clusters[arg.cluster_labels[p]]) >= 2

\* C30: a screenshot without tags and without description is not in the
\* unprocessed list, is never sent to the embedding collaborator and never
\* gets a ledger entry.
C30_EmptyContentSkipped ==
    prog = "embed"
        => \A k \in Items :
              kind[k] = "empty"
                 => /\ k \notin SeqSet(unprocessed)
                    /\ calls[k] = 0
                    /\ file[k] = NoEntry

\* The frames of the video v among the members of the cluster c of
\* clusters.json, and its maximal runs of consecutive frames.
TrueFrames(c, v) ==
    {n \in 1..MaxTimelineFrame : screenshot_name(v, n) \in SeqSet(arg.clusters[c])}

TrueRuns(c) ==
    {[video |-> v, first |-> a, last |-> b] :
        <<v, a, b>> \in {t \in Videos \X (1..MaxTimelineFrame) \X (1..MaxTimelineFrame) :
                           /\ t[2] <= t[3]
                           /\ t[2]..t[3] \subseteq TrueFrames(c, t[1])
                           /\ t[2] - 1 \notin TrueFrames(c, t[1])
                           /\ t[3] + 1 \notin TrueFrames(c, t[1])}}

RunLength(r) == r.last - r.first + 1

RunTimestamp(r) == (r.first + (RunLength(r) \div 2)) * FRAME_STRIDE

\* The rounded position of a run, in twentieths.
RunPosition(r) == CeilDiv(RunTimestamp(r) * 20, arg.durations[r.video])

RECURSIVE TotalLength(_)
TotalLength(R) ==
    IF R = {} THEN 0
    ELSE LET r == CHOOSE x \in R : TRUE IN RunLength(r) + TotalLength(R \ {r})

TimelineDone == ret # <<>> /\ ret.by = "timeline"

\* C21: every point of every cluster record of the timeline has a percentage
\* between 0 and 1.
C21_PositionRange ==
    TimelineDone
        => \A c \in DOMAIN ret.clusters : \A i \in DOMAIN ret.clusters[c].points :
              /\ 0 <= ret.clusters[c].points[i].percentage.num
              /\ ret.clusters[c].points[i].percentage.num <= ret.clusters[c].points[i].percentage.den

\* C22: in a cluster record the runs of the sources with a duration that
\* round to one position make exactly one point; its count is the sum of
\* their lengths and its videos are their sources.
C22_TimelineMerge ==
    TimelineDone
        => \A c \in DOMAIN ret.clusters :
              LET rec == ret.clusters[c]
                  runs == {r \in TrueRuns(rec.cluster_id) : arg.durations[r.video] # 0}
                  at(n) == {r \in runs : RunPosition(r) = n}
              IN /\ \A r \in runs :
                       Cardinality({i \in DOMAIN rec.points :
                                      rec.points[i].percentage.num = RunPosition(r)}) = 1
                 /\ \A i \in DOMAIN rec.points :
                       /\ at(rec.points[i].percentage.num) # {}
                       /\ rec.points[i].percentage.den = 20
                       /\ rec.points[i].count = TotalLength(at(rec.points[i].percentage.num))
                       /\ rec.points[i].videos
                             = {r.video : r \in at(rec.points[i].percentage.num)}

C22_Witness ==
    /\ TimelineDone
    /\ \E c \in DOMAIN ret.clusters : \E i \in DOMAIN ret.clusters[c].points :
          /\ Cardinality(ret.clusters[c].points[i].videos) = 2
          /\ ret.clusters[c].points[i].count = 5

\* C23: a source without duration has no point in a cluster record, and
\* every run of the other sources of the cluster has its point.
C23_UnavailableDuration ==
    TimelineDone
        => \A c \in DOMAIN ret.clusters :
              LET rec == ret.clusters[c]
              IN /\ \A i \in DOMAIN rec.timeline_points :
                       arg.durations[rec.timeline_points[i].video] # 0
                 /\ \A i \in DOMAIN rec.points : \A v \in rec.points[i].videos :
                       arg.durations[v] # 0
                 /\ \A r \in TrueRuns(rec.cluster_id) :
                       arg.durations[r.video] # 0
                          => /\ \E i \in DOMAIN rec.timeline_points :
                                  /\ rec.timeline_points[i].video = r.video
                                  /\ rec.timeline_points[i].frames
                                        = [j \in 1..RunLength(r) |-> r.first + j - 1]
                             /\ \E i \in DOMAIN rec.points :
                                  /\ r.video \in rec.points[i].videos
                                  /\ rec.points[i].percentage.num = RunPosition(r)

C23_Witness ==
    /\ TimelineDone
    /\ \E c \in DOMAIN ret.clusters :
          /\ \E r \in TrueRuns(ret.clusters[c].cluster_id) : arg.durations[r.video] = 0
          /\ ret.clusters[c].points # <<>>

\* C26: the points of a cluster record stand in strictly ascending order of
\* percentage.
C26_PointOrder ==
    TimelineDone
        => \A c \in DOMAIN ret.clusters : \A i, j \in DOMAIN ret.clusters[c].points :
              i < j => ret.clusters[c].points[i].percentage.num
                          < ret.clusters[c].points[j].percentage.num

C26_Witness ==
    /\ TimelineDone
    /\ \E c \in DOMAIN ret.clusters :
          /\ Len(ret.clusters[c].points) >= 2
          /\ \E i, j \in DOMAIN ret.clusters[c].timeline_points :
                /\ i < j
                /\ ret.clusters[c].timeline_points[i].percentage.num
                      > ret.clusters[c].timeline_points[j].percentage.num

\* C29: a run is placed by the element at index len(run) // 2 of the
\* ascending run, and its timestamp is that frame times FRAME_STRIDE.
C29_RepresentativeFrame ==
    TimelineDone
        => \A c \in DOMAIN ret.clusters :
              LET rec == ret.clusters[c]
              IN /\ \A i \in DOMAIN rec.timeline_points :
                       LET seq == rec.timeline_points[i].frames
                       IN /\ \A j \in 1..(Len(seq) - 1) : seq[j + 1] = seq[j] + 1
                          /\ rec.timeline_points[i].timestamp
                                = seq[(Len(seq) \div 2) + 1] * FRAME_STRIDE
                 /\ {<<rec.timeline_points[i].video, rec.timeline_points[i].timestamp>> :
                        i \in DOMAIN rec.timeline_points}
                       = {<<r.video, RunTimestamp(r)>> :
                            r \in {x \in TrueRuns(rec.cluster_id) : arg.durations[x.video] # 0}}

C29_Witness ==
    /\ TimelineDone
    /\ \E c \in DOMAIN ret.clusters : \E i \in DOMAIN ret.clusters[c].timeline_points :
          /\ Len(ret.clusters[c].timeline_points[i].frames) = 2
          /\ ret.clusters[c].timeline_points[i].timestamp
                = ret.clusters[c].timeline_points[i].frames[2] * FRAME_STRIDE

\* C25: the members of the label -1 are not among the screenshots of the
\* content check, the timeline has no record for -1 and no point made of its
\* members, and the movie count lists no entry for -1.
C25_ReservedNoiseLabel ==
    (ret # <<>> /\ -1 \in DOMAIN arg.clusters)
        => /\ ret.by = "content"
                => /\ ret.all_screenshots \cap SeqSet(arg.clusters[-1]) = {}
                   /\ ret.all_screenshots = SeqSet(arg.clusters[0])
           /\ ret.by = "timeline"
                => /\ \A c \in DOMAIN ret.clusters : ret.clusters[c].cluster_id # -1
                   /\ Len(ret.clusters) = Cardinality(DOMAIN arg.clusters \ {-1})
                   /\ \A c \in DOMAIN ret.clusters :
                         \A i \in DOMAIN ret.clusters[c].timeline_points :
                            \A j \in DOMAIN ret.clusters[c].timeline_points[i].frames :
                               screenshot_name(ret.clusters[c].timeline_points[i].video,
                                               ret.clusters[c].timeline_points[i].frames[j])
                                  \notin SeqSet(arg.clusters[-1])
           /\ ret.by = "movie_count"
                => \A i \in DOMAIN ret.checked.single_movie_clusters :
                      ret.checked.single_movie_clusters[i].cluster_id # -1

C25_Witness ==
    /\ ret # <<>>
    /\ ret.by = "content"
    /\ -1 \in DOMAIN arg.clusters
    /\ Len(arg.clusters[-1]) >= 2
    /\ ret.all_screenshots # {}

\* The required input of the entry point that ran is missing: its directory
\* is not there or holds no input files.
InputMissing ==
    \/ ret.entry = "add_embeddings" /\ (~arg.data_dir \/ arg.json_files = 0)
    \/ ret.entry = "send_images_to_llm" /\ (~arg.screenshots_dir \/ arg.directories = 0)
    \/ ret.entry = "build_nearest_neighbors"
          /\ (~arg.embeddings_dir \/ arg.embedding_files = 0)

\* C24: an entry point whose required input is missing does no work, prints
\* a message and leaves with a non-zero exit status.
C24_RunLevelErrors ==
    (ret # <<>> /\ InputMissing)
        => /\ ret.work = 0
           /\ ret.message # ""
           /\ ret.exit_status # 0

\* C27: a worker that has entered a task holds a client made in its own
\* process, every call is made with a client of the calling worker, and no
\* client is used by two workers.
C27_ExclusiveSession ==
    /\ \A w \in 1..MAX_WORKERS :
          ret.worker[w].client # 0 => ret.clients[ret.worker[w].client] = w
    /\ \A u \in ret.uses : ret.clients[u[1]] = u[2]
    /\ \A u, v \in ret.uses : u[1] = v[1] => u[2] = v[2]

C27_Witness ==
    \E w, x \in 1..MAX_WORKERS :
       /\ w # x
       /\ ret.worker[w].left > 0
       /\ ret.worker[x].left > 0
       /\ \E u, v \in ret.uses : u[2] = w /\ v[2] = x

\* C31: in an iteration of the classification loop a cluster whose entry has
\* a non-empty classification is passed over without a call and without a
\* change; any other cluster is classified again (with a call when it has
\* descriptions); a call that raises leaves the entries as they were; and
\* the loop goes on with the next cluster unless the process is killed.
C31_ClassifyResumeRule ==
    [][(prog = "classify" /\ pc = "loop" /\ (idx' # idx \/ outcome' # outcome))
          => LET k == unprocessed[idx]
                 done == results[k] \in {"classified", "no_descriptions_available"}
             IN /\ done => /\ calls' = calls
                            /\ outcome' = outcome
                            /\ results' = results
                /\ ~done => /\ outcome'[k] # "none"
                             /\ calls'[k] = calls[k]
                                    + (IF kind[k] = "descriptions" THEN 1 ELSE 0)
                /\ outcome'[k] = "raised" => results' = results
                /\ pc' # "killed" => idx' = idx + 1
                /\ \A j \in Items \ {k} : /\ results'[j] = results[j]
                                            /\ calls'[j] = calls[j]]_vars

C31_Witness ==
    /\ prog = "classify"
    /\ run = 2
    /\ pc = "done"
    /\ \E k, k2, k3 \in Items :
          /\ loaded[k] = "classified" /\ calls[k] = 0 /\ outcome[k] = "none"
          /\ loaded[k2] = NoEntry /\ outcome[k2] = "raised" /\ results[k2] = NoEntry
          /\ loaded[k3] = "empty_classification" /\ calls[k3] = 1
                /\ results[k3] = "classified"

\* C32: the content check's split of a non-empty list has at most
\* MAX_WORKERS batches, none of them empty and none longer than batch_size.
C32_BatchCountBound ==
    pc = "workers_split"
        => /\ Len(batches) >= 1
           /\ Len(batches) <= MAX_WORKERS
           /\ \A b \in DOMAIN batches :
                 Len(batches[b]) >= 1 /\ Len(batches[b]) <= batch_size
           /\ batch_size * MAX_WORKERS > Len(unprocessed)

C32_Witness ==
    /\ pc = "workers_split"
    /\ Len(batches) = MAX_WORKERS
    /\ batch_size >= 2
    /\ Len(batches[Len(batches)]) < batch_size

\* C33: in a run of any processor the collaborator is called at most once
\* for an item, whether the call succeeded or failed.
C33_AtMostOneAttempt ==
    \A k \in Items :
       /\ calls[k] <= 1
       /\ outcome[k] = "raised" => calls[k] = 1

C33_Witness ==
    /\ prog = "content"
    /\ pc = "done"
    /\ \E k, j \in Items :
          /\ outcome[k] = "raised" /\ calls[k] = 1
          /\ outcome[j] = "evaluated" /\ calls[j] = 1

\* C34: in the image run every write of a worker goes to the ledger file of
\* the directory it is working on, no ledger file is written by two
\* workers, and every ledger file holds every result recorded for its
\* directory.
C34_NoLostUpdate ==
    arg.entry = "image"
        => /\ \A u \in ret.writes : u[1] = <<u[3], ".json">>
           /\ \A u, v \in ret.writes : u[1] = v[1] => u[2] = v[2]
           /\ \A r \in ret.recorded : r \in ret.files[<<r[1], ".json">>]
           /\ \A f \in DOMAIN ret.files : \A r \in ret.files[f] : f = <<r[1], ".json">>

C34_Witness ==
    /\ arg.entry = "image"
    /\ \E w, x \in 1..MAX_WORKERS :
          /\ w # x
          /\ ret.worker[w].left > 0
          /\ ret.worker[x].left > 0
          /\ \E u, v \in ret.writes : u[2] = w /\ v[2] = x
    /\ Cardinality(ret.recorded) >= 2

RECURSIVE TotalCount(_)
TotalCount(points) ==
    IF points = <<>> THEN 0 ELSE Head(points).count + TotalCount(Tail(points))

\* C35: for a cluster whose members all parse to a video and a frame and
\* whose videos all have a duration, the counts of the timeline points add up
\* to the number of members.
C35_CountConservation ==
    TimelineDone
        => \A c \in DOMAIN ret.clusters :
              LET members == arg.clusters[ret.clusters[c].cluster_id]
              IN (\A i \in DOMAIN members :
                     /\ timeline_parse_filename(members[i]).ok
                     /\ arg.durations[timeline_parse_filename(members[i]).video_name] # 0)
                    => TotalCount(ret.clusters[c].points) = Len(members)

\* C36: from a key <video>__<digits>.jpg every component derives the video
\* the key was made from, and the frame where it derives one.
C36_SourceKeyAgreement ==
    ret # <<>>
        => /\ ret.neighbors.matched
           /\ ret.neighbors.movie = arg.video
           /\ ret.neighbors.frame = arg.frame
           /\ ret.timeline.ok
           /\ ret.timeline.video_name = arg.video
           /\ ret.timeline.frame_number = arg.frame
           /\ ret.movie_count = arg.video
           /\ ret.content.ok
           /\ ret.content.video_name = arg.video
           /\ ret.black.ok
           /\ ret.black.video_name = arg.video

\* C37: a cluster is classified as safe only if the content check evaluated
\* every one of its screenshots and answered nudity false.
C37_VerifiedResultsOnly ==
    ret # <<>>
        => \A c \in ret.safe_clusters : \A k \in arg.clusters[c] : arg.checks[k] = "false"

====
